---- MODULE Spec2Model ----
(***************************************************************************)
(* Model of the FoxESS Cloud integration (custom_components/foxess_cloud). *)
(*                                                                         *)
(* Spec, SpecEdit: the scheduler staging / reconciliation object,          *)
(* FoxESSCloudSchedulerCoordinator (coordinator.py), together with the     *)
(* server-side scheduler state it talks to through                         *)
(* FoxESSCloudClient.async_get_scheduler / async_set_scheduler.            *)
(*                                                                         *)
(* SpecThrottle, SpecSequential, SpecClient: the API client,               *)
(* FoxESSCloudClient (api_client/client.py): its checks, its throttle,     *)
(* the call-tracker hook and the classification of responses.              *)
(*                                                                         *)
(* Everything runs on a single-threaded event loop: code between two       *)
(* awaits is atomic, so every action below is one such stretch of code.    *)
(* A Python Optional is modelled as a sequence: <<>> is None, <<v>> is v.  *)
(***************************************************************************)
EXTENDS Integers, Sequences, FiniteSets, TLC

\* ------------------------------------------------------------------ bounds

\* Largest number of successful update_group calls in one behaviour.
MaxEdits == 1
\* Largest number of async_submit_group calls in one behaviour.
MaxSubmits == 1
\* Largest number of HTTP requests the client sends in one behaviour.
MaxCalls == 3
\* The clock stops at this second.
MaxTime == 5

\* record_call operations started on one tracker.
MaxRecords == 3

\* The tracker's clock is read up to MaxOffset half hours past a whole
\* number of days, at most MaxDays, after the tracker was constructed.
MaxDays == 1
MaxOffset == 3

\* Separators put into a setting key.
MaxSeparators == 1

\* The refresh intervals tried lie within this many minutes of the lowest
\* and of the highest supported interval.
MaxMargin == 2

\* ------------------------------------------------------------ Optional[T]

None == <<>>
Some(v) == <<v>>
IsNone(o) == o = <<>>
Get(o) == o[1]

\* ---------------------------------------------------------- SchedulerGroup

\* SchedulerGroup: the ten fields of one scheduler time segment.
SchedulerGroup(en, sh, sm, eh, em, wm, msg, fs, fp, ms) ==
    [enable |-> en, start_hour |-> sh, start_minute |-> sm,
     end_hour |-> eh, end_minute |-> em, work_mode |-> wm,
     min_soc_on_grid |-> msg, fd_soc |-> fs, fd_pwr |-> fp, max_soc |-> ms]

Fields ==
    {"enable", "start_hour", "start_minute", "end_hour", "end_minute",
     "work_mode", "min_soc_on_grid", "fd_soc", "fd_pwr", "max_soc"}

\* Faulty variant of DefaultGroup: the default group is enabled.
DefaultGroupEnabled ==
    SchedulerGroup(1, 0, 0, 0, 0, "SelfUse", 20, 20, 10000, 100)

\* _default_group(): the group staged while no server data exists.
DefaultGroup == SchedulerGroup(0, 0, 0, 0, 0, "SelfUse", 20, 20, 10000, 100)

\* SchedulerInfo: master enable flag plus the server's list of groups.
SchedulerInfo(en, gs) == [enable |-> en, groups |-> gs]

\* SchedulerSetRequest: the body of scheduler/enable.
SchedulerSetRequest(sn, gs) == [device_sn |-> sn, groups |-> gs]

DeviceSN == "SN1"

\* ------------------------------------------------------------ environment

\* Groups the server may hold before the integration writes any.
GroupA == SchedulerGroup(1, 1, 15, 2, 20, "Feedin", 15, 25, 3000, 95)
GroupB == SchedulerGroup(0, 22, 10, 23, 59, "Backup", 30, 40, 8000, 80)
ServerGroups == {GroupA, GroupB}

\* The states of the server-side scheduler other clients of the account
\* produce: no group or several groups, scheduler on or off.  A state with
\* one group is what a submit leaves behind.
ServerStates ==
    {SchedulerInfo(1, <<>>),
     SchedulerInfo(0, <<GroupB, GroupA>>)}

\* The errors a client call raises (api_client/errors.py).
ClientErrors == {"AuthError", "ConnectionError", "ApiError"}

\* The keyword arguments of update_group: each is None or a value.
AllKwargs ==
    [enable : {None, Some(0), Some(1)},
     start_hour : {None, Some(5)}, start_minute : {None, Some(30)},
     end_hour : {None, Some(6)}, end_minute : {None, Some(45)},
     work_mode : {None, Some("ForceCharge")},
     min_soc_on_grid : {None, Some(10)}, fd_soc : {None, Some(50)},
     fd_pwr : {None, Some(5000)}, max_soc : {None, Some(90)}]

Provided(a) == {f \in Fields : ~IsNone(a[f])}

NoArgs == [f \in Fields |-> None]

\* The arguments are plain int: a start time of 24:60 is a call like any
\* other.
LateStart == [NoArgs EXCEPT !.start_hour = Some(24), !.start_minute = Some(60)]

TimeFields == {"start_hour", "start_minute", "end_hour", "end_minute"}

\* SpecEdit: every combination of the four time arguments, alone or with
\* enable, every call with a single argument, and a start time out of the
\* range of a clock.
Kwargs ==
    {a \in AllKwargs :
        \/ Provided(a) \ TimeFields \subseteq {"enable"}
        \/ Cardinality(Provided(a)) = 1}
    \cup {LateStart}

\* Spec: calls the entities make (switch.py:60, time.py:88, select.py:143,
\* number.py:248) and one call with half a time pair.
CallerKwargs ==
    {[NoArgs EXCEPT !.enable = Some(1)],
     [NoArgs EXCEPT !.start_hour = Some(5), !.start_minute = Some(30)],
     [NoArgs EXCEPT !.work_mode = Some("ForceCharge")],
     [NoArgs EXCEPT !.max_soc = Some(90)],
     [NoArgs EXCEPT !.start_hour = Some(5)]}

\* ------------------------------------------------------------------ state

VARIABLES
    \* FoxESSCloudSchedulerCoordinator and the server's schedule
    staging,            \* self.staging: the staged SchedulerGroup
    dirty,              \* self._dirty
    last_scheduler,     \* self._last_scheduler: Optional[SchedulerInfo]
    data,               \* self.data: the view published to observers
    refresh_requested,  \* a refresh asked for by async_request_refresh
    fetch,              \* the _async_update_data call in flight
    submit,             \* the async_submit_group call in flight
    server,             \* the scheduler state held by the FoxESS cloud
    last_step,          \* the coordinator's last step and what its caller saw
    edits,              \* update_group calls so far
    submits,            \* async_submit_group calls so far
    last_submitted,     \* history: the group of the last submit that
                        \* returned normally, until staging is next
                        \* assigned by an edit, a fetch or a restore
    \* FoxESSCloudClient
    config,             \* on_api_call is set, self.debug
    now,                \* time(): the clock, in seconds
    last_call,          \* self._last_call
    calls,              \* the client operation each task is running
    http_count,         \* HTTP requests handed to the session so far
    tracker_count,      \* on_api_call notifications so far
    last_request,       \* history: the last HTTP request and its time
    \* ApiCallTracker
    tnow,               \* datetime.now(timezone.utc), in half hours
    buckets,            \* self._buckets: hour bucket -> count
    lock,               \* self._lock: the task holding it, or None
    tracker,            \* the tracker operation each task is running
    recorded,           \* history: the timestamps of the record_call
                        \* operations that completed
    \* config entry options, options flow, real-time coordinator
    options,            \* config_entry.options[CONF_REALTIME_UPDATE_INTERVAL]
    flow,               \* history: the last input of the options flow and
                        \* the interval it stored
    realtime,           \* the real-time coordinator: the option it was
                        \* built from and its update_interval, in minutes
    \* FoxESSCloudClient's helpers
    canonical,          \* the last _canonical_setting_key call
    signed,             \* the last _generate_signature call
    \* the set_schedule service
    service,            \* the async_handle_set_schedule call in flight
    \* async_setup_entry and the platforms
    runtime_data,       \* entry.runtime_data
    loaded,             \* the platforms whose async_setup_entry has run
    entities,           \* the entities handed to async_add_entities
    \* FoxESSCloudConfigFlow
    cflow,              \* the flow: self._api_key, self._devices, the call
                        \* it awaits, its last input and its last result
    entries,            \* the config entries the flows created
    list_calls          \* history: the async_list_inverters calls that
                        \* returned, with the API key of their client

schedulerVars ==
    <<staging, dirty, last_scheduler, data, refresh_requested, fetch,
      submit, server, last_step, edits, submits, last_submitted>>

clientVars ==
    <<config, now, last_call, calls, http_count, tracker_count, last_request>>

trackerVars == <<tnow, buckets, lock, tracker, recorded>>

intervalVars == <<options, flow, realtime>>

helperVars == <<canonical, signed>>

serviceVars == <<service>>

setupVars == <<runtime_data, loaded, entities>>

configFlowVars == <<cflow, entries, list_calls>>

\* The variables of the service, the entry setup and the config flow.
glueVars == <<serviceVars, setupVars, configFlowVars>>

vars ==
    <<schedulerVars, clientVars, trackerVars, intervalVars, helperVars,
      glueVars>>

\* What the actions of one component leave alone.
notScheduler ==
    <<clientVars, trackerVars, intervalVars, helperVars, glueVars>>
notClient ==
    <<schedulerVars, trackerVars, intervalVars, helperVars, glueVars>>
notTracker ==
    <<schedulerVars, clientVars, intervalVars, helperVars, glueVars>>
notInterval ==
    <<schedulerVars, clientVars, trackerVars, helperVars, glueVars>>
notHelper ==
    <<schedulerVars, clientVars, trackerVars, intervalVars, glueVars>>
notGlue ==
    <<clientVars, trackerVars, intervalVars, helperVars>>

coordinator == <<staging, dirty, last_scheduler, data>>

\* No call in flight.  A call in flight is at one of
\*   "sent"     the request is on its way to the server,
\*   "replied"  the client call is about to return `result`,
\*   "failed"   the client call is about to raise one of ClientErrors,
\* and a submit carries the request `req` it sent.
Idle == [pc |-> "idle", result |-> None, req |-> None]
InFlight(pc, result, req) == [pc |-> pc, result |-> result, req |-> req]

\* A fetch in flight also remembers, as history, what dirty was when
\* _async_update_data was entered.
Fetching(pc, result, d) ==
    [pc |-> pc, result |-> result, req |-> None, entered_dirty |-> d]

\* A fetch in flight that remembers, as history, how many submits the
\* server had already answered when it read the state it returns.
FetchingAfter(pc, result, n) ==
    [pc |-> pc, result |-> result, req |-> None, decided |-> n]

\* What a step reports: the operation and its keyword arguments, whether it
\* returned normally, the error it raised otherwise, and whether the
\* listeners were called.
Call(op, a, ok, err, notified) ==
    [op |-> op, args |-> a, ok |-> ok, error |-> err, notified |-> notified]
Step(op, ok, err, notified) == Call(op, NoArgs, ok, err, notified)

\* ---------------------------------------------------------------- helpers

\* Faulty variant of StagingToSchedulerInfo: the master flag is always 1.
StagingToSchedulerInfoAlwaysEnabled(stg, last) == SchedulerInfo(1, <<stg>>)

\* _staging_to_scheduler_info(): the presentation view.
StagingToSchedulerInfo(stg, last) ==
    SchedulerInfo(IF ~IsNone(last) THEN Get(last).enable ELSE 1, <<stg>>)

\* update_group, `if x is not None: updated.x = x`.
SetIfProvided(g, a, f) ==
    IF ~IsNone(a[f]) THEN [g EXCEPT ![f] = Get(a[f])] ELSE g

\* update_group, the two `^` checks that raise ValueError.
MismatchedPair(a) ==
    \/ IsNone(a.start_hour) # IsNone(a.start_minute)
    \/ IsNone(a.end_hour) # IsNone(a.end_minute)

\* update_group, lines 178-200: the assignments made to the group g.
ApplyKwargs(g, a) ==
    LET u0 == g
        u1 == SetIfProvided(u0, a, "enable")
        u2 == IF ~IsNone(a.start_hour) /\ ~IsNone(a.start_minute)
              THEN [u1 EXCEPT !.start_hour = Get(a.start_hour),
                              !.start_minute = Get(a.start_minute)]
              ELSE u1
        u3 == IF ~IsNone(a.end_hour) /\ ~IsNone(a.end_minute)
              THEN [u2 EXCEPT !.end_hour = Get(a.end_hour),
                              !.end_minute = Get(a.end_minute)]
              ELSE u2
        u4 == SetIfProvided(u3, a, "work_mode")
        u5 == SetIfProvided(u4, a, "min_soc_on_grid")
        u6 == SetIfProvided(u5, a, "fd_soc")
        u7 == SetIfProvided(u6, a, "fd_pwr")
    IN  SetIfProvided(u7, a, "max_soc")

\* Faulty variant of UpdatedGroup: `updated` starts from the default group.
UpdatedGroupFromDefault(stg, a) == ApplyKwargs(DefaultGroup, a)

\* update_group, lines 176-200: `updated`, a deep copy of staging with the
\* provided fields assigned.
UpdatedGroup(stg, a) == ApplyKwargs(stg, a)

\* Faulty variant of StagedAfterFetch: the dirty flag is not consulted.
StagedAfterFetchIgnoresDirty(stg, d, info) ==
    IF info.groups # <<>> THEN info.groups[1] ELSE DefaultGroup

\* Faulty variant of StagedAfterFetch: the last group of the list is taken.
StagedAfterFetchLastGroup(stg, d, info) ==
    IF ~d
    THEN IF info.groups # <<>>
         THEN info.groups[Len(info.groups)]
         ELSE DefaultGroup
    ELSE stg

\* _async_update_data, lines 151-155: the group staged after a fetch.
StagedAfterFetch(stg, d, info) ==
    IF ~d
    THEN IF info.groups # <<>> THEN info.groups[1] ELSE DefaultGroup
    ELSE stg

\* Faulty variant of RestoredGroup: the last fetched state is not consulted.
RestoredGroupAlwaysDefault(last) == DefaultGroup

\* restore_staged_group, lines 219-222.
RestoredGroup(last) ==
    IF ~IsNone(last) /\ Get(last).groups # <<>>
    THEN Get(last).groups[1]
    ELSE DefaultGroup

\* ================================================== FoxESSCloudClient

\* min_interval: the least number of seconds between two requests.
MinInterval == 2

\* The clock when the client is constructed: _last_call starts at 0.0 and
\* time() is a Unix time, far more than min_interval past 0.
StartTime == MinInterval

\* A string the code takes apart is a sequence of one-character strings.
UpperCase ==
    <<"A", "B", "C", "D", "E", "F", "G", "H", "I", "J", "K", "L", "M",
     "N", "O", "P", "Q", "R", "S", "T", "U", "V", "W", "X", "Y", "Z">>
LowerCase ==
    <<"a", "b", "c", "d", "e", "f", "g", "h", "i", "j", "k", "l", "m",
     "n", "o", "p", "q", "r", "s", "t", "u", "v", "w", "x", "y", "z">>

\* str.lower() on one character.
Lower(ch) ==
    IF \E i \in 1..26 : UpperCase[i] = ch
    THEN LowerCase[CHOOSE i \in 1..26 : UpperCase[i] = ch]
    ELSE ch

\* str.replace(ch, "").
Remove(str, ch) == SelectSeq(str, LAMBDA x : x # ch)

\* _SETTING_KEYS: normalised key, canonical key.
SETTING_KEYS ==
    {<<<<"e", "x", "p", "o", "r", "t", "l", "i", "m", "i", "t">>,
       <<"E", "x", "p", "o", "r", "t", "L", "i", "m", "i", "t">>>>,
     <<<<"m", "i", "n", "s", "o", "c">>,
       <<"M", "i", "n", "S", "o", "c">>>>,
     <<<<"m", "i", "n", "s", "o", "c", "o", "n", "g", "r", "i", "d">>,
       <<"M", "i", "n", "S", "o", "c", "O", "n", "G", "r", "i", "d">>>>,
     <<<<"m", "a", "x", "s", "o", "c">>,
       <<"M", "a", "x", "S", "o", "c">>>>,
     <<<<"g", "r", "i", "d", "c", "o", "d", "e">>,
       <<"G", "r", "i", "d", "C", "o", "d", "e">>>>,
     <<<<"w", "o", "r", "k", "m", "o", "d", "e">>,
       <<"W", "o", "r", "k", "M", "o", "d", "e">>>>,
     <<<<"a", "c", "t", "i", "v", "e", "p", "o", "w", "e", "r", "l", "i", "m", "i", "t">>,
       <<"A", "c", "t", "i", "v", "e", "P", "o", "w", "e", "r", "L", "i", "m", "i", "t">>>>,
     <<<<"e", "x", "p", "o", "r", "t", "l", "i", "m", "i", "t", "p", "o", "w", "e", "r">>,
       <<"E", "x", "p", "o", "r", "t", "L", "i", "m", "i", "t", "P", "o", "w", "e", "r">>>>,
     <<<<"e", "p", "s", "o", "u", "t", "p", "u", "t">>,
       <<"E", "p", "s", "O", "u", "t", "P", "u", "t">>>>,
     <<<<"e", "c", "o", "m", "o", "d", "e">>,
       <<"E", "C", "O", "M", "o", "d", "e">>>>}

\* Faulty variant of NormalizedKey: the case is kept.
NormalizedKeyKeepsCase(key) == Remove(Remove(key, "_"), "-")

\* key.replace("_", "").replace("-", "").lower()
NormalizedKey(key) ==
    LET stripped == Remove(Remove(key, "_"), "-")
    IN  [i \in 1..Len(stripped) |-> Lower(stripped[i])]

\* _canonical_setting_key: the canonical key, or None where the code raises
\* FoxESSCloudApiError("Unknown setting key ...").
CanonicalSettingKey(key) ==
    IF \E row \in SETTING_KEYS : row[1] = NormalizedKey(key)
    THEN Some((CHOOSE row \in SETTING_KEYS : row[1] = NormalizedKey(key))[2])
    ELSE None

\* ------------------------------------------------------ client operations

\* One invocation of a client operation with the arguments the model
\* follows: the setting key, the report dimension, the serial list and the
\* api_version (the arguments an operation does not take are empty).
ClientOp(name, key, dimension, sns, api_version) ==
    [name |-> name, key |-> key, dimension |-> dimension, sns |-> sns,
     api_version |-> api_version]

\* What a client operation hands back to its caller: "ok", or the class of
\* the exception raised, with the errno it carries (if any) and its text.
Result(kind, code, message) ==
    [kind |-> kind, code |-> code, message |-> message]

Ok == Result("ok", None, "")

\* Faulty variant of Validation: a v0 real-time query is not checked for
\* the number of serials.
ValidationV0AnyCount(op) ==
    CASE op.name \in {"async_get_setting", "async_set_setting"} ->
            IF IsNone(CanonicalSettingKey(op.key))
            THEN Some(Result("ApiError", None, "Unknown setting key"))
            ELSE None
      [] op.name = "async_get_production_report" ->
            IF op.dimension \notin {"year", "month", "day"}
            THEN Some(Result("ApiError", None,
                             "dimension must be one of: year, month, day"))
            ELSE None
      [] op.name = "async_get_real_time_data" ->
            IF op.sns = <<>>
            THEN Some(Result("ApiError", None,
                             "sns must contain at least one serial number"))
            ELSE IF op.api_version \notin {"v0", "v1"}
            THEN Some(Result("ApiError", None,
                             "api_version must be 'v0' or 'v1'"))
            ELSE None
      [] OTHER -> None

\* The checks an operation makes before it builds its payload: None when
\* they pass, the FoxESSCloudApiError raised otherwise.
Validation(op) ==
    CASE op.name \in {"async_get_setting", "async_set_setting"} ->
            IF IsNone(CanonicalSettingKey(op.key))
            THEN Some(Result("ApiError", None, "Unknown setting key"))
            ELSE None
      [] op.name = "async_get_production_report" ->
            IF op.dimension \notin {"year", "month", "day"}
            THEN Some(Result("ApiError", None,
                             "dimension must be one of: year, month, day"))
            ELSE None
      [] op.name = "async_get_real_time_data" ->
            IF op.sns = <<>>
            THEN Some(Result("ApiError", None,
                             "sns must contain at least one serial number"))
            ELSE IF op.api_version \notin {"v0", "v1"}
            THEN Some(Result("ApiError", None,
                             "api_version must be 'v0' or 'v1'"))
            ELSE IF op.api_version = "v0" /\ Len(op.sns) # 1
            THEN Some(Result("ApiError", None,
                             "v0 real-time query accepts exactly one sn"))
            ELSE None
      [] OTHER -> None

\* The payload or query parameters of a request: the entries the model
\* follows, None for an entry the request does not have.
Payload(sn, key, dimension, sns) ==
    [sn |-> sn, key |-> key, dimension |-> dimension, sns |-> sns]

HttpRequest(method, path, payload) ==
    [method |-> method, path |-> path, payload |-> payload]

\* The request an operation that passed its checks hands to
\* _async_post_json or _async_get_json.
BuildRequest(op) ==
    CASE op.name = "async_get_setting" ->
            HttpRequest("POST", "/op/v0/device/setting/get",
                Payload(Some(DeviceSN), CanonicalSettingKey(op.key),
                        None, None))
      [] op.name = "async_set_setting" ->
            HttpRequest("POST", "/op/v0/device/setting/set",
                Payload(Some(DeviceSN), CanonicalSettingKey(op.key),
                        None, None))
      [] op.name = "async_get_device_detail" ->
            HttpRequest("GET", "/op/v1/device/detail",
                Payload(Some(DeviceSN), None, None, None))
      [] op.name = "async_get_production_report" ->
            HttpRequest("POST", "/op/v0/device/report/query",
                Payload(Some(DeviceSN), None, Some(op.dimension), None))
      [] op.name = "async_get_real_time_data" ->
            IF op.api_version = "v0"
            THEN HttpRequest("POST", "/op/v0/device/real/query",
                     Payload(Some(op.sns[1]), None, None, None))
            ELSE HttpRequest("POST", "/op/v1/device/real/query",
                     Payload(None, None, None, Some(op.sns)))
      [] op.name = "async_get_scheduler" ->
            HttpRequest("POST", "/op/v1/device/scheduler/get",
                Payload(Some(DeviceSN), None, None, None))

\* ------------------------------------------------------------- responses

\* The body of a response: text that is not JSON ("malformed"), JSON that
\* is not an object ("other": a list, null, an empty body), or an object
\* with the entries the client reads, None for an absent entry.
Body(form, errno, msg, message, error) ==
    [form |-> form, errno |-> errno, msg |-> msg, message |-> message,
     error |-> error]

\* What comes back for a request: transport = FALSE when session.post or
\* session.get raises (no route, timeout, connection reset), otherwise the
\* HTTP status and the body.
Response(transport, status, body) ==
    [transport |-> transport, status |-> status, body |-> body]

\* Python truth of an optional string.
Truthy(o) == ~IsNone(o) /\ Get(o) # ""

\* data.get("msg") or data.get("message") or data.get("error")
BodyMessage(body) ==
    IF Truthy(body.msg) THEN body.msg
    ELSE IF Truthy(body.message) THEN body.message
    ELSE body.error

\* Faulty variant of ClassifyPost: raise_for_status is left out, so the
\* body of an error response is read like any other.
ClassifyPostIgnoresStatus(debug, resp) ==
    LET body == resp.body
        message == BodyMessage(body)
        text == IF Truthy(message) THEN Get(message) ELSE "no message"
    IN  IF ~resp.transport \/ body.form = "malformed"
                           \/ (debug /\ body.form # "object")
        THEN Result("ConnectionError", None,
                    "Failed to communicate with FoxESS Cloud")
        ELSE IF body.form # "object"
        THEN Result("ApiError", None,
                    "Unexpected response format from FoxESS Cloud")
        ELSE IF IsNone(body.errno)
        THEN Result("ApiError", None,
                    "Missing errno in FoxESS Cloud response")
        ELSE IF Get(body.errno) # 0
        THEN IF Get(body.errno) \in {401, 403}
             THEN Result("AuthError", body.errno, text)
             ELSE Result("ApiError", body.errno, text)
        ELSE Ok

\* _async_post_json after the request was handed to the session (lines
\* 252-288): the result for a response, in the order of the code.  The
\* try block covers session.post, raise_for_status, response.json() and
\* the debug print; what it raises becomes an auth or connection error.
ClassifyPost(debug, resp) ==
    LET body == resp.body
        message == BodyMessage(body)
        text == IF Truthy(message) THEN Get(message) ELSE "no message"
    IN  IF ~resp.transport
        THEN Result("ConnectionError", None,
                    "Failed to communicate with FoxESS Cloud")
        ELSE IF resp.status >= 400
        THEN IF resp.status = 401
             THEN Result("AuthError", None, "Authentication failed")
             ELSE Result("ConnectionError", None,
                         "HTTP error during FoxESS Cloud request")
        ELSE IF body.form = "malformed"
        THEN Result("ConnectionError", None,
                    "Failed to communicate with FoxESS Cloud")
        ELSE IF debug /\ body.form # "object"
        THEN Result("ConnectionError", None,
                    "Failed to communicate with FoxESS Cloud")
        ELSE IF body.form # "object"
        THEN Result("ApiError", None,
                    "Unexpected response format from FoxESS Cloud")
        ELSE IF IsNone(body.errno)
        THEN Result("ApiError", None,
                    "Missing errno in FoxESS Cloud response")
        ELSE IF Get(body.errno) # 0
        THEN IF Get(body.errno) \in {401, 403}
             THEN Result("AuthError", body.errno, text)
             ELSE Result("ApiError", body.errno, text)
        ELSE Ok

\* Faulty variant of ClassifyGet: only errno 401 is taken as an
\* authentication failure.
ClassifyGetOnly401(debug, resp) ==
    LET r == ClassifyPost(debug, resp)
    IN  IF r.kind = "AuthError" /\ r.code = Some(403)
        THEN Result("ApiError", r.code, r.message)
        ELSE r

\* _async_get_json after the request was handed to the session (lines
\* 313-348): the result for a response, in the order of the code.  The
\* try block covers session.get, raise_for_status, response.json() and
\* the debug print; what it raises becomes an auth or connection error.
ClassifyGet(debug, resp) ==
    LET body == resp.body
        message == BodyMessage(body)
        text == IF Truthy(message) THEN Get(message) ELSE "no message"
    IN  IF ~resp.transport
        THEN Result("ConnectionError", None,
                    "Failed to communicate with FoxESS Cloud")
        ELSE IF resp.status >= 400
        THEN IF resp.status = 401
             THEN Result("AuthError", None, "Authentication failed")
             ELSE Result("ConnectionError", None,
                         "HTTP error during FoxESS Cloud request")
        ELSE IF body.form = "malformed"
        THEN Result("ConnectionError", None,
                    "Failed to communicate with FoxESS Cloud")
        ELSE IF debug /\ body.form # "object"
        THEN Result("ConnectionError", None,
                    "Failed to communicate with FoxESS Cloud")
        ELSE IF body.form # "object"
        THEN Result("ApiError", None,
                    "Unexpected response format from FoxESS Cloud")
        ELSE IF IsNone(body.errno)
        THEN Result("ApiError", None,
                    "Missing errno in FoxESS Cloud response")
        ELSE IF Get(body.errno) # 0
        THEN IF Get(body.errno) \in {401, 403}
             THEN Result("AuthError", body.errno, text)
             ELSE Result("ApiError", body.errno, text)
        ELSE Ok

\* The result of a request by its method.
Classify(method, debug, resp) ==
    IF method = "POST" THEN ClassifyPost(debug, resp)
    ELSE ClassifyGet(debug, resp)

\* ----------------------------------------------------------- client state

\* The tasks that call the client: the coordinators' refreshes and the
\* entities' service calls run as separate tasks on one event loop.
Callers == {"c1", "c2"}

\* How a client is constructed: whether on_api_call is given and the debug
\* flag.  async_setup_entry wires the call tracker (__init__.py:58-62), the
\* config flow gives no hook (config_flow.py:178), the command line tool
\* gives no hook and passes --debug (api_client/__main__.py:33-37).
ClientConfig(on_api_call, debug) ==
    [on_api_call |-> on_api_call, debug |-> debug]
SetupEntryClient == ClientConfig(TRUE, FALSE)
ConfigFlowClient == ClientConfig(FALSE, FALSE)
DebugClient == ClientConfig(FALSE, TRUE)
ClientConfigs == {SetupEntryClient, ConfigFlowClient, DebugClient}

\* A task's call: where it is,
\*   "idle"      no call made yet,
\*   "sleeping"  suspended in _throttle until the clock reaches `wake`,
\*   "sent"      awaiting the session's response to `request`,
\*   "done"      returned or raised `result`,
\* the operation, the steps _async_post_json / _async_get_json completed
\* so far (`trail`), and the response received.
IdleCall ==
    [pc |-> "idle", op |-> None, wake |-> 0, trail |-> <<>>,
     request |-> None, response |-> None, result |-> None]

\* FoxESSCloudClient(...) just constructed: _last_call = 0.0.
ClientInit(cfg) ==
    /\ config = cfg
    /\ now = StartTime
    /\ last_call = 0
    /\ calls = [c \in Callers |-> IdleCall]
    /\ http_count = 0
    /\ tracker_count = 0
    /\ last_request = None

\* ===================================================== ApiCallTracker

\* Time is counted in half hours, so that a call and a query each fall in
\* the first or the second half of their hour bucket.
UnitsPerHour == 2

\* timedelta(hours=24)
Window == 24 * UnitsPerHour

\* _bucket_for: int(timestamp.timestamp() // 3600)
BucketFor(ts) == ts \div UnitsPerHour

\* Faulty variant of PruneLocked: the cutoff is the bucket of now, not of
\* 24 hours before.
PruneLockedFromNow(bk, ts) ==
    LET cutoff_bucket == BucketFor(ts)
        stale == {b \in DOMAIN bk : b < cutoff_bucket}
    IN  [b \in DOMAIN bk \ stale |-> bk[b]]

\* _prune_locked(now): the buckets older than the cutoff bucket are
\* deleted.
PruneLocked(bk, ts) ==
    LET cutoff_bucket == BucketFor(ts - Window)
        stale == {b \in DOMAIN bk : b < cutoff_bucket}
    IN  [b \in DOMAIN bk \ stale |-> bk[b]]

\* sum(count for bucket, count in items if bucket >= cutoff_bucket)
RECURSIVE SumFrom(_, _, _)
SumFrom(bk, keys, cutoff_bucket) ==
    IF keys = {} THEN 0
    ELSE LET b == CHOOSE x \in keys : TRUE
             rest == SumFrom(bk, keys \ {b}, cutoff_bucket)
         IN  IF b >= cutoff_bucket THEN bk[b] + rest ELSE rest

\* self._buckets.get(bucket, 0)
BucketGet(bk, b) == IF b \in DOMAIN bk THEN bk[b] ELSE 0

\* self._buckets[bucket] = value
BucketSet(bk, b, value) ==
    [x \in DOMAIN bk \cup {b} |-> IF x = b THEN value ELSE bk[x]]

\* The tasks that use the tracker: requests in flight notify it, the
\* sensor reads it.
TrackerTasks == {"t1", "t2"}

\* A task's tracker operation: where it is,
\*   "idle"                  no operation running,
\*   "rec_lock", "rec_body"  record_call: at the await of the lock, and
\*                           holding it,
\*   "cnt_lock", "cnt_body"  count_last_24h: at the await of the lock, and
\*                           holding it,
\* its timestamp, its bucket (for a count, the cutoff bucket), and what
\* the count returned. A finished operation keeps its timestamp.
TrackerOp(pc, ts, bucket, counted) ==
    [pc |-> pc, ts |-> ts, bucket |-> bucket, counted |-> counted]

IdleOp == TrackerOp("idle", 0, 0, None)

\* The clock when the tracker is constructed: a Unix time, more than 24
\* hours past 0.
TrackerStart == Window

\* ApiCallTracker(): no bucket, the lock free.
TrackerInit ==
    /\ tnow = TrackerStart
    /\ buckets = <<>>
    /\ lock = None
    /\ tracker = [t \in TrackerTasks |-> IdleOp]
    /\ recorded = <<>>

\* ============================================ real-time update interval

\* const.py
DEFAULT_REALTIME_UPDATE_INTERVAL == 5
MIN_REALTIME_UPDATE_INTERVAL == 1
MAX_REALTIME_UPDATE_INTERVAL == 60

\* An interval is an int or a float: the model counts it in half minutes,
\* so that 3 is 1.5 minutes and -1 is -0.5 minutes.
PerMinute == 2

\* int(value): the fraction is dropped, towards zero.
IntOf(value) ==
    IF value >= 0 THEN value \div PerMinute ELSE -((-value) \div PerMinute)

\* max(a, b), min(a, b)
Max(a, b) == IF a >= b THEN a ELSE b
Min(a, b) == IF a <= b THEN a ELSE b

\* Faulty variant of ValidatedUpdateInterval: no upper limit.
ValidatedUpdateIntervalNoMax(value) ==
    LET coerced == IntOf(value)
    IN  IF coerced < MIN_REALTIME_UPDATE_INTERVAL
        THEN MIN_REALTIME_UPDATE_INTERVAL
        ELSE coerced

\* FoxESSCloudRealTimeCoordinator._validated_update_interval
ValidatedUpdateInterval(value) ==
    LET coerced == IntOf(value)
    IN  IF coerced < MIN_REALTIME_UPDATE_INTERVAL
        THEN MIN_REALTIME_UPDATE_INTERVAL
        ELSE IF coerced > MAX_REALTIME_UPDATE_INTERVAL
             THEN MAX_REALTIME_UPDATE_INTERVAL
             ELSE coerced

\* FoxESSCloudOptionsFlow.async_step_init: the interval it stores.
OptionsFlowInterval(value) ==
    LET interval1 == IntOf(value)
        interval2 == Max(MIN_REALTIME_UPDATE_INTERVAL, interval1)
        interval3 == Min(MAX_REALTIME_UPDATE_INTERVAL, interval2)
    IN  interval3

\* An input and the interval computed from it.
Computed(value, interval) == [input |-> value, interval |-> interval]

\* The values tried, in half minutes: the default, and those around the
\* two limits.
IntervalInputs ==
    {DEFAULT_REALTIME_UPDATE_INTERVAL * PerMinute}
      \cup ((MIN_REALTIME_UPDATE_INTERVAL - MaxMargin) * PerMinute
              .. (MIN_REALTIME_UPDATE_INTERVAL + MaxMargin) * PerMinute)
      \cup ((MAX_REALTIME_UPDATE_INTERVAL - MaxMargin) * PerMinute
              .. (MAX_REALTIME_UPDATE_INTERVAL + MaxMargin) * PerMinute)

\* A config entry without options, no options flow run, the real-time
\* coordinator not built yet.
IntervalInit ==
    /\ options = None
    /\ flow = None
    /\ realtime = None

\* FoxESSCloudOptionsFlow.async_step_init with user_input: the clamped
\* interval becomes the entry's option.
OptionsFlowStepInit(value) ==
    /\ flow' = Some(Computed(value, OptionsFlowInterval(value)))
    /\ options' = Some(OptionsFlowInterval(value) * PerMinute)
    /\ UNCHANGED realtime
    /\ UNCHANGED notInterval

\* The config entry is loaded with the option it was stored with, which
\* need not have come from the options flow.
LoadEntry(value) ==
    /\ options' = Some(value)
    /\ UNCHANGED <<flow, realtime>>
    /\ UNCHANGED notInterval

\* FoxESSCloudRealTimeCoordinator.__init__: update_interval from
\* options.get(CONF_REALTIME_UPDATE_INTERVAL, DEFAULT_REALTIME_UPDATE_INTERVAL).
RealTimeCoordinatorInit ==
    LET value == IF options = None
                 THEN DEFAULT_REALTIME_UPDATE_INTERVAL * PerMinute
                 ELSE Get(options)
    IN  /\ realtime' = Some(Computed(value, ValidatedUpdateInterval(value)))
        /\ UNCHANGED <<options, flow>>
        /\ UNCHANGED notInterval

\* ============================================= FoxESSCloudClient helpers

\* No helper called yet.
HelperInit ==
    /\ canonical = None
    /\ signed = None

\* ==================================================== set_schedule service

\* A dict of the service call's "groups" that SchedulerGroup.model_validate
\* rejects; the dicts it accepts are written as the groups they become.
InvalidPayload == [invalid |-> TRUE]

\* The group lists callers pass.
GroupPayloads == {<<GroupA>>, <<GroupB, GroupA>>, <<GroupA, InvalidPayload>>}

\* lines 179-183: every payload validates.
ValidPayloads(payloads) ==
    \A i \in DOMAIN payloads : payloads[i] # InvalidPayload

\* An async_handle_set_schedule call: where it is (as a call in flight),
\* the request it built and, as history, staging, dirty and the number of
\* edits when it was entered.  A finished call keeps both.
ServiceCall(pc, req, entered) == [pc |-> pc, req |-> req, entered |-> entered]

ServiceInit == service = ServiceCall("idle", None, None)

\* ============================================================ config flow

\* The API keys users type: none, blanks, a key, and a key between blanks.
TypedKeys == {<<>>, <<" ">>, <<"k">>, <<" ", "k", " ">>}

\* str.strip()
RECURSIVE Strip(_)
Strip(str) ==
    IF str = <<>> THEN str
    ELSE IF Head(str) = " " THEN Strip(Tail(str))
    ELSE IF str[Len(str)] = " " THEN Strip(SubSeq(str, 1, Len(str) - 1))
    ELSE str

\* str.lower()
LowerStr(str) == [i \in DOMAIN str |-> Lower(str[i])]

\* Inverter (api_client/models.py): the fields the flow reads.
Inverter(device_sn, station_name) ==
    [device_sn |-> device_sn, station_name |-> station_name]

\* Serial numbers: two the account has, in either case, and one it has not.
SerialA == <<"A", "1">>
SerialB == <<"a", "1">>
SerialX == <<"X", "9">>

\* What async_list_inverters does: it returns a list of devices, empty or
\* not, or raises one of the client's errors or something else.
Listed(devices) == [kind |-> "ok", devices |-> devices]
Raised(kind) == [kind |-> kind, devices |-> <<>>]

ListOutcomes ==
    {Listed(<<>>),
     Listed(<<Inverter(SerialA, "Home")>>),
     Listed(<<Inverter(SerialA, ""), Inverter(SerialB, "Shed")>>),
     Raised("AuthError"), Raised("ConnectionError"), Raised("ApiError"),
     Raised("Exception")}

\* FlowResult: a form of a step with its error, an abort, or the entry.
FlowResult(type, step_id, error) ==
    [type |-> type, step_id |-> step_id, error |-> error]

\* The flow object: self._api_key, self._devices, the key of the client
\* whose call is awaited, as history the last user input and what the last
\* call did, and the last result.
ConfigFlow(api_key, devices, pending, input, outcome, result) ==
    [api_key |-> api_key, devices |-> devices, pending |-> pending,
     input |-> input, outcome |-> outcome, result |-> result]

NoFlow == ConfigFlow(None, None, None, None, None, FlowResult("none", "", ""))

ConfigFlowInit ==
    /\ cflow = NoFlow
    /\ entries = {}
    /\ list_calls = {}

\* ========================================================= glue: Init

GlueInit ==
    /\ ServiceInit
    /\ runtime_data = None
    /\ loaded = {}
    /\ entities = {}
    /\ ConfigFlowInit

\* ------------------------------------------------------------------- Init

\* __init__: default staging, not dirty, nothing fetched, nothing published.
InitCoordinator ==
    /\ staging = DefaultGroup
    /\ dirty = FALSE
    /\ last_scheduler = None
    /\ data = None
    /\ refresh_requested = FALSE
    /\ fetch = Idle
    /\ submit = Idle
    /\ server \in ServerStates
    /\ last_step = Step("init", TRUE, "", FALSE)
    /\ edits = 0
    /\ submits = 0
    /\ last_submitted = None

\* async_setup_entry: the client with the call tracker wired, then the
\* scheduler coordinator.
Init ==
    /\ InitCoordinator
    /\ ClientInit(SetupEntryClient)
    /\ TrackerInit
    /\ IntervalInit
    /\ HelperInit
    /\ GlueInit

\* ------------------------------------------------------------------ fetch

\* _async_update_data up to the end of its await: the scheduler/get request
\* is issued (by the periodic timer or by a requested refresh) and the server
\* answers with its current state, or the client call is going to raise.
AsyncGetScheduler ==
    /\ fetch.pc = "idle"
    /\ \/ fetch' = InFlight("replied", Some(server), None)
       \/ fetch' = InFlight("failed", None, None)
    /\ refresh_requested' = FALSE
    /\ UNCHANGED <<coordinator, submit, server, last_step, edits, submits, last_submitted>>
    /\ UNCHANGED notScheduler

\* AsyncGetScheduler with the fetch remembering what dirty was on entry.
AsyncGetSchedulerEntered ==
    /\ fetch.pc = "idle"
    /\ \/ fetch' = Fetching("replied", Some(server), dirty)
       \/ fetch' = Fetching("failed", None, dirty)
    /\ refresh_requested' = FALSE
    /\ UNCHANGED <<coordinator, submit, server, last_step, edits, submits, last_submitted>>
    /\ UNCHANGED notScheduler

\* Faulty variant of UpdateDataOk: the fetched state is stored only when not dirty.
UpdateDataOkKeepsLastWhenDirty ==
    /\ fetch.pc = "replied"
    /\ LET info == Get(fetch.result)
           stg == StagedAfterFetch(staging, dirty, info)
           last == IF dirty THEN last_scheduler ELSE Some(info)
       IN  /\ staging' = stg
           /\ last_scheduler' = last
           /\ data' = Some(StagingToSchedulerInfo(stg, last))
    /\ fetch' = Idle
    /\ last_step' = Step("fetch", TRUE, "", TRUE)
    /\ UNCHANGED <<dirty, refresh_requested, submit, server, edits, submits>>
    /\ last_submitted' = None
    /\ UNCHANGED notScheduler

\* Faulty variant of UpdateDataOk: dirty is read when _async_update_data
\* is entered, before the await.
UpdateDataOkDirtyReadEarly ==
    /\ fetch.pc = "replied"
    /\ LET info == Get(fetch.result)
           stg == StagedAfterFetch(staging, fetch.entered_dirty, info)
       IN  /\ staging' = stg
           /\ last_scheduler' = Some(info)
           /\ data' = Some(StagingToSchedulerInfo(stg, Some(info)))
    /\ fetch' = Idle
    /\ last_step' = Step("fetch", TRUE, "", TRUE)
    /\ UNCHANGED <<dirty, refresh_requested, submit, server, edits, submits>>
    /\ last_submitted' = None
    /\ UNCHANGED notScheduler

\* Faulty variant of UpdateDataFail: the last fetched state is dropped.
UpdateDataFailForgetsLast ==
    /\ fetch.pc = "failed"
    /\ fetch' = Idle
    /\ last_scheduler' = None
    /\ last_step' = Step("fetch", FALSE, "UpdateFailed", TRUE)
    /\ UNCHANGED <<staging, dirty, data, refresh_requested, submit, server,
                   edits, submits, last_submitted>>
    /\ UNCHANGED notScheduler

\* _async_update_data after a successful await (lines 151-158), and the
\* DataUpdateCoordinator storing the returned view and calling listeners.
UpdateDataOk ==
    /\ fetch.pc = "replied"
    /\ LET info == Get(fetch.result)
           stg == StagedAfterFetch(staging, dirty, info)
       IN  /\ staging' = stg
           /\ last_scheduler' = Some(info)
           /\ data' = Some(StagingToSchedulerInfo(stg, Some(info)))
    /\ fetch' = Idle
    /\ last_step' = Step("fetch", TRUE, "", TRUE)
    /\ UNCHANGED <<dirty, refresh_requested, submit, server, edits, submits>>
    /\ last_submitted' = None
    /\ UNCHANGED notScheduler

\* _async_update_data when the client raised any of its three errors (lines
\* 146-149): each is turned into UpdateFailed.
UpdateDataFail ==
    /\ fetch.pc = "failed"
    /\ fetch' = Idle
    /\ last_step' = Step("fetch", FALSE, "UpdateFailed", TRUE)
    /\ UNCHANGED <<coordinator, refresh_requested, submit, server, edits,
                   submits, last_submitted>>
    /\ UNCHANGED notScheduler

\* ------------------------------------------------------------------- edit

\* update_group(**a) returning normally (lines 176-205): the updated copy
\* replaces staging, dirty is set, the new view is pushed to the listeners.
\* async_set_updated_data also cancels a refresh that is still pending.
UpdateGroupOk(a) ==
    /\ ~MismatchedPair(a)
    /\ staging' = UpdatedGroup(staging, a)
    /\ dirty' = TRUE
    /\ data' = Some(StagingToSchedulerInfo(staging', last_scheduler))
    /\ refresh_requested' = FALSE
    /\ edits' = edits + 1
    /\ last_step' = Call("update_group", a, TRUE, "", TRUE)
    /\ UNCHANGED <<last_scheduler, fetch, submit, server, submits>>
    /\ last_submitted' = None
    /\ UNCHANGED notScheduler

\* Faulty variant of UpdateGroupRaise: `updated` is staging itself, not a copy, so
\* the assignment to enable made before the raise stays.
UpdateGroupRaiseNoCopy(a) ==
    /\ MismatchedPair(a)
    /\ staging' = SetIfProvided(staging, a, "enable")
    /\ last_step' = Call("update_group", a, FALSE, "ValueError", FALSE)
    /\ UNCHANGED <<dirty, last_scheduler, data, refresh_requested, fetch,
                   submit, server, edits, submits, last_submitted>>
    /\ UNCHANGED notScheduler

\* update_group(**a) raising ValueError (lines 180-183): only the local copy
\* `updated` was touched, the coordinator is as before.
UpdateGroupRaise(a) ==
    /\ MismatchedPair(a)
    /\ last_step' = Call("update_group", a, FALSE, "ValueError", FALSE)
    /\ UNCHANGED <<coordinator, refresh_requested, fetch, submit, server,
                   edits, submits, last_submitted>>
    /\ UNCHANGED notScheduler

\* ----------------------------------------------------------------- submit

\* Faulty variant of SubmitSend: dirty is cleared before the request is awaited.
SubmitSendClearsDirty ==
    /\ submit.pc = "idle"
    /\ submits < MaxSubmits
    /\ submit' = InFlight("sent", None,
                          Some(SchedulerSetRequest(DeviceSN, <<staging>>)))
    /\ dirty' = FALSE
    /\ submits' = submits + 1
    /\ UNCHANGED last_submitted
    /\ UNCHANGED <<staging, last_scheduler, data, refresh_requested, fetch,
                   server, last_step, edits>>
    /\ UNCHANGED notScheduler

\* Faulty variant of SubmitSend: the other groups last fetched are sent along.
SubmitSendKeepsOtherGroups ==
    /\ submit.pc = "idle"
    /\ submits < MaxSubmits
    /\ LET others == IF IsNone(last_scheduler)
                         \/ Get(last_scheduler).groups = <<>>
                     THEN <<>>
                     ELSE Tail(Get(last_scheduler).groups)
       IN  submit' = InFlight("sent", None,
               Some(SchedulerSetRequest(DeviceSN, <<staging>> \o others)))
    /\ submits' = submits + 1
    /\ UNCHANGED last_submitted
    /\ UNCHANGED <<coordinator, refresh_requested, fetch, server, last_step,
                   edits>>
    /\ UNCHANGED notScheduler

\* async_submit_group up to its await (lines 210-212): the request is built
\* from the staged group and dumped to the payload that is sent.
SubmitSend ==
    /\ submit.pc = "idle"
    /\ submits < MaxSubmits
    /\ submit' = InFlight("sent", None,
                          Some(SchedulerSetRequest(DeviceSN, <<staging>>)))
    /\ submits' = submits + 1
    /\ UNCHANGED last_submitted
    /\ UNCHANGED <<coordinator, refresh_requested, fetch, server, last_step,
                   edits>>
    /\ UNCHANGED notScheduler

\* The server accepts scheduler/enable: the request's group list replaces
\* every group it held and the scheduler is enabled.
SetSchedulerAccepted ==
    /\ submit.pc = "sent"
    /\ server' = SchedulerInfo(1, Get(submit.req).groups)
    /\ submit' = [submit EXCEPT !.pc = "replied"]
    /\ UNCHANGED <<coordinator, refresh_requested, fetch, last_step, edits,
                   submits, last_submitted>>
    /\ UNCHANGED notScheduler

\* scheduler/enable fails: the server rejects the request, or the transport
\* fails, which may hide a request the server has applied.
SetSchedulerFailed ==
    /\ submit.pc = "sent"
    /\ submit' = [submit EXCEPT !.pc = "failed"]
    /\ \/ server' = server
       \/ server' = SchedulerInfo(1, Get(submit.req).groups)
    /\ UNCHANGED <<coordinator, refresh_requested, fetch, last_step, edits,
                   submits, last_submitted>>
    /\ UNCHANGED notScheduler

\* Faulty variant of SubmitReturn: the refresh is requested without dirty
\* being cleared.
SubmitReturnKeepsDirty ==
    /\ submit.pc = "replied"
    /\ refresh_requested' = TRUE
    /\ submit' = Idle
    /\ last_step' = Step("submit", TRUE, "", FALSE)
    /\ last_submitted' = Some(Get(submit.req).groups[1])
    /\ UNCHANGED <<staging, dirty, last_scheduler, data, fetch, server, edits,
                   submits>>
    /\ UNCHANGED notScheduler

\* async_submit_group after a successful await (lines 213-214): dirty is
\* cleared and then a refresh is requested.
SubmitReturn ==
    /\ submit.pc = "replied"
    /\ dirty' = FALSE
    /\ refresh_requested' = TRUE
    /\ submit' = Idle
    /\ last_step' = Step("submit", TRUE, "", FALSE)
    /\ last_submitted' = Some(Get(submit.req).groups[1])
    /\ UNCHANGED <<staging, last_scheduler, data, fetch, server, edits,
                   submits>>
    /\ UNCHANGED notScheduler

\* Faulty variant of SubmitRaise: dirty is cleared and the refresh is
\* requested although async_set_scheduler raised.
SubmitRaiseCleansUp ==
    /\ submit.pc = "failed"
    /\ submit' = Idle
    /\ dirty' = FALSE
    /\ refresh_requested' = TRUE
    /\ \E e \in ClientErrors : last_step' = Step("submit", FALSE, e, FALSE)
    /\ UNCHANGED <<staging, last_scheduler, data, fetch, server, edits,
                   submits, last_submitted>>
    /\ UNCHANGED notScheduler

\* async_submit_group when async_set_scheduler raised: the error reaches
\* the caller, lines 213-214 are not run.
SubmitRaise ==
    /\ submit.pc = "failed"
    /\ submit' = Idle
    /\ \E e \in ClientErrors : last_step' = Step("submit", FALSE, e, FALSE)
    /\ UNCHANGED <<coordinator, refresh_requested, fetch, server, edits,
                   submits, last_submitted>>
    /\ UNCHANGED notScheduler

\* ---------------------------------------------------------------- restore

\* restore_staged_group (lines 219-225).
Restore ==
    /\ staging' = RestoredGroup(last_scheduler)
    /\ dirty' = FALSE
    /\ data' = Some(StagingToSchedulerInfo(staging', last_scheduler))
    /\ refresh_requested' = FALSE
    /\ last_step' = Step("restore", TRUE, "", TRUE)
    /\ UNCHANGED <<last_scheduler, fetch, submit, server, edits, submits>>
    /\ last_submitted' = None
    /\ UNCHANGED notScheduler

\* ------------------------------------------------------------ environment

\* Another client of the account (the vendor's app) rewrites the schedule.
ServerChange ==
    /\ \E s \in ServerStates : server' = s /\ s # server
    /\ UNCHANGED <<coordinator, refresh_requested, fetch, submit, last_step,
                   edits, submits, last_submitted>>
    /\ UNCHANGED notScheduler

\* ------------------------------------------------------------------- Spec

\* Every operation, interleaved at the awaits, with the entities' calls.
Next ==
    \/ AsyncGetScheduler
    \/ UpdateDataOk
    \/ UpdateDataFail
    \/ \E a \in CallerKwargs : edits < MaxEdits /\ UpdateGroupOk(a)
    \/ \E a \in CallerKwargs : UpdateGroupRaise(a)
    \/ SubmitSend
    \/ SetSchedulerAccepted
    \/ SetSchedulerFailed
    \/ SubmitReturn
    \/ SubmitRaise
    \/ Restore
    \/ ServerChange

Spec == Init /\ [][Next]_vars

\* Fetch, edit and restore, with every update_group call of Kwargs.
NextEdit ==
    \/ AsyncGetScheduler
    \/ UpdateDataOk
    \/ UpdateDataFail
    \/ \E a \in Kwargs : edits < MaxEdits /\ UpdateGroupOk(a)
    \/ \E a \in Kwargs : UpdateGroupRaise(a)
    \/ Restore

SpecEdit == Init /\ [][NextEdit]_vars

\* Fetches that remember dirty on entry, next to the edits the entities
\* make, restore and the server changing.
NextFetchEdit ==
    \/ AsyncGetSchedulerEntered
    \/ UpdateDataOk
    \/ UpdateDataFail
    \/ \E a \in CallerKwargs : edits < MaxEdits /\ UpdateGroupOk(a)
    \/ \E a \in CallerKwargs : UpdateGroupRaise(a)
    \/ Restore
    \/ ServerChange

SpecFetchEdit == Init /\ [][NextFetchEdit]_vars

\* AsyncGetScheduler with the fetch remembering how many submits the server
\* had answered when it read its state: a submit still at "sent" is not one.
AsyncGetSchedulerDecided ==
    /\ fetch.pc = "idle"
    /\ LET n == IF submit.pc = "sent" THEN submits - 1 ELSE submits
       IN  \/ fetch' = FetchingAfter("replied", Some(server), n)
           \/ fetch' = FetchingAfter("failed", None, n)
    /\ refresh_requested' = FALSE
    /\ UNCHANGED <<coordinator, submit, server, last_step, edits, submits, last_submitted>>
    /\ UNCHANGED notScheduler

\* Fetches that remember when they read the server, next to submits, the
\* entities' edits and the server changing.
NextFetchSubmit ==
    \/ AsyncGetSchedulerDecided
    \/ UpdateDataOk
    \/ UpdateDataFail
    \/ \E a \in CallerKwargs : edits < MaxEdits /\ UpdateGroupOk(a)
    \/ SubmitSend
    \/ SetSchedulerAccepted
    \/ SetSchedulerFailed
    \/ SubmitReturn
    \/ SubmitRaise
    \/ ServerChange

SpecFetchSubmit == Init /\ [][NextFetchSubmit]_vars

\* ----------------------------------------------------------- set_schedule

\* async_handle_set_schedule up to its first await (lines 157-187): the
\* entry is loaded and has a scheduler coordinator, the payloads validate,
\* the request is built from them and sent.
SetScheduleSend(payloads) ==
    /\ service.pc = "idle"
    /\ ValidPayloads(payloads)
    /\ service' = ServiceCall("sent",
                      Some(SchedulerSetRequest(DeviceSN, payloads)),
                      Some([staging |-> staging, dirty |-> dirty,
                            edits |-> edits]))
    /\ UNCHANGED schedulerVars
    /\ UNCHANGED <<setupVars, configFlowVars>>
    /\ UNCHANGED notGlue

\* async_handle_set_schedule raising at line 183: a payload does not
\* validate, nothing is sent.
SetScheduleInvalid(payloads) ==
    /\ service.pc = "idle"
    /\ ~ValidPayloads(payloads)
    /\ last_step' = Step("set_schedule", FALSE, "ServiceValidationError", FALSE)
    /\ UNCHANGED <<coordinator, refresh_requested, fetch, submit, server,
                   edits, submits, last_submitted>>
    /\ UNCHANGED glueVars
    /\ UNCHANGED notGlue

\* The server accepts the service's scheduler/enable request.
ServiceAccepted ==
    /\ service.pc = "sent"
    /\ server' = SchedulerInfo(1, Get(service.req).groups)
    /\ service' = [service EXCEPT !.pc = "replied"]
    /\ UNCHANGED <<coordinator, refresh_requested, fetch, submit, last_step,
                   edits, submits, last_submitted>>
    /\ UNCHANGED <<setupVars, configFlowVars>>
    /\ UNCHANGED notGlue

\* The service's request fails, applied by the server or not.
ServiceFailed ==
    /\ service.pc = "sent"
    /\ service' = [service EXCEPT !.pc = "failed"]
    /\ \/ server' = server
       \/ server' = SchedulerInfo(1, Get(service.req).groups)
    /\ UNCHANGED <<coordinator, refresh_requested, fetch, submit, last_step,
                   edits, submits, last_submitted>>
    /\ UNCHANGED <<setupVars, configFlowVars>>
    /\ UNCHANGED notGlue

\* Faulty variant of ServiceReturn: dirty is cleared as async_submit_group
\* does.
ServiceReturnClearsDirty ==
    /\ service.pc = "replied"
    /\ dirty' = FALSE
    /\ refresh_requested' = TRUE
    /\ service' = [service EXCEPT !.pc = "idle"]
    /\ last_step' = Step("set_schedule", TRUE, "", FALSE)
    /\ UNCHANGED <<staging, last_scheduler, data, fetch, submit, server,
                   edits, submits, last_submitted>>
    /\ UNCHANGED <<setupVars, configFlowVars>>
    /\ UNCHANGED notGlue

\* async_handle_set_schedule after async_set_scheduler returned (line
\* 188): the refresh of the scheduler coordinator is requested.
ServiceReturn ==
    /\ service.pc = "replied"
    /\ refresh_requested' = TRUE
    /\ service' = [service EXCEPT !.pc = "idle"]
    /\ last_step' = Step("set_schedule", TRUE, "", FALSE)
    /\ UNCHANGED <<coordinator, fetch, submit, server, edits, submits,
                   last_submitted>>
    /\ UNCHANGED <<setupVars, configFlowVars>>
    /\ UNCHANGED notGlue

\* async_handle_set_schedule when async_set_scheduler raised (line 187):
\* the error reaches the caller, no refresh is requested.
ServiceRaise ==
    /\ service.pc = "failed"
    /\ service' = [service EXCEPT !.pc = "idle"]
    /\ \E e \in ClientErrors : last_step' = Step("set_schedule", FALSE, e, FALSE)
    /\ UNCHANGED <<coordinator, refresh_requested, fetch, submit, server,
                   edits, submits, last_submitted>>
    /\ UNCHANGED <<setupVars, configFlowVars>>
    /\ UNCHANGED notGlue

\* The edits made while the service is used: the switch's and the max_soc
\* number's (switch.py:60, number.py:248).
ServiceEdits ==
    {[NoArgs EXCEPT !.enable = Some(1)], [NoArgs EXCEPT !.max_soc = Some(90)]}

\* The service next to the coordinator's fetches, the entities' edits and
\* the server changing.
NextService ==
    \/ \E payloads \in GroupPayloads : SetScheduleSend(payloads)
    \/ \E payloads \in GroupPayloads : SetScheduleInvalid(payloads)
    \/ ServiceAccepted
    \/ ServiceFailed
    \/ ServiceReturn
    \/ ServiceRaise
    \/ AsyncGetScheduler
    \/ UpdateDataOk
    \/ UpdateDataFail
    \/ \E a \in ServiceEdits : edits < MaxEdits /\ UpdateGroupOk(a)
    \/ ServerChange

SpecService == Init /\ [][NextService]_vars

\* ================================================ entry setup, platforms

\* const.py: PLATFORMS
PLATFORMS ==
    {"sensor", "binary_sensor", "number", "select", "button", "switch", "time"}

\* dict.get(key)
DictGet(d, key) == IF key \in DOMAIN d THEN Some(d[key]) ELSE None

\* device_detail_coordinator.data: an InverterDetail with its `function`
\* field, None or a dict of flags.
InverterDetail(function) == [function |-> function]

\* The details the device detail request returns: function missing, empty,
\* with the scheduler flag set and with it cleared.
Details ==
    {InverterDetail(None),
     InverterDetail(Some(<<>>)),
     InverterDetail(Some([k \in {"scheduler"} |-> TRUE])),
     InverterDetail(Some([k \in {"scheduler"} |-> FALSE]))}

\* __init__.py, lines 83-85.
HasScheduler(detail) ==
    IF detail.function # None
    THEN DictGet(Get(detail.function), "scheduler") = Some(TRUE)
    ELSE TRUE

\* FoxESSCloudRuntimeData: the objects the platforms take from it.
RuntimeData(scheduler_coordinator) ==
    [client |-> Some("client"),
     api_call_tracker |-> Some("api_call_tracker"),
     device_detail_coordinator |-> Some("device_detail_coordinator"),
     realtime_coordinator |-> Some("realtime_coordinator"),
     scheduler_coordinator |-> scheduler_coordinator]

\* An entity handed to async_add_entities: its platform, its class, the key
\* that tells the entities of a class apart, and the object it was
\* constructed on.
Entity(platform, cls, key, on) ==
    [platform |-> platform, cls |-> cls, key |-> key, on |-> on]

\* The classes declared as CoordinatorEntity[FoxESSCloudSchedulerCoordinator]
\* and the restore button, which calls the scheduler coordinator.
SchedulerClasses ==
    {"FoxESSScheduleEnableSwitch", "FoxESSScheduleTimeEntity",
     "FoxESSScheduleWorkModeSelect", "FoxESSScheduleOverrideButton",
     "FoxESSScheduleRestoreButton", "FoxESSSchedulerEnabledBinarySensor",
     "FoxESSScheduleDirtyBinarySensor", "FoxESSScheduleNumber"}

\* switch.py, async_setup_entry.
SwitchEntities(rt) ==
    IF rt.scheduler_coordinator = None THEN {}
    ELSE {Entity("switch", "FoxESSScheduleEnableSwitch", "enable",
                 rt.scheduler_coordinator)}

\* time.py, async_setup_entry.
TimeEntities(rt) ==
    IF rt.scheduler_coordinator = None THEN {}
    ELSE {Entity("time", "FoxESSScheduleTimeEntity", kind,
                 rt.scheduler_coordinator) : kind \in {"start", "end"}}

\* select.py, async_setup_entry.
SelectEntities(rt) ==
    {Entity("select", "FoxESSWorkModeSelect", "work_mode", rt.client)}
    \cup (IF rt.scheduler_coordinator # None
          THEN {Entity("select", "FoxESSScheduleWorkModeSelect", "work_mode",
                       rt.scheduler_coordinator)}
          ELSE {})

\* button.py, async_setup_entry.
ButtonEntities(rt) ==
    {Entity("button", "FoxESSRealTimeRefreshButton", "refresh",
            rt.realtime_coordinator)}
    \cup (IF rt.scheduler_coordinator # None
          THEN {Entity("button", "FoxESSScheduleOverrideButton", "override",
                       rt.scheduler_coordinator),
                Entity("button", "FoxESSScheduleRestoreButton", "restore",
                       rt.scheduler_coordinator)}
          ELSE {})

\* binary_sensor.py, async_setup_entry.
BinarySensorEntities(rt) ==
    {Entity("binary_sensor", "FoxESSCurrentFaultBinarySensor", "fault",
            rt.realtime_coordinator),
     Entity("binary_sensor", "FoxESSHasBatteryBinarySensor", "has_battery",
            rt.device_detail_coordinator)}
    \cup (IF rt.scheduler_coordinator = None THEN {}
          ELSE {Entity("binary_sensor", "FoxESSSchedulerEnabledBinarySensor",
                       "enabled", rt.scheduler_coordinator),
                Entity("binary_sensor", "FoxESSScheduleDirtyBinarySensor",
                       "dirty", rt.scheduler_coordinator)})

\* number.py, async_setup_entry: the setting numbers, and the scheduler
\* numbers constructed on whatever runtime_data.scheduler_coordinator is.
NumberEntities(rt) ==
    {Entity("number", "FoxESSSettingNumber", key, rt.client) :
        key \in {"ExportLimit", "MinSoc", "MinSocOnGrid", "MaxSoc"}}
    \cup {Entity("number", "FoxESSScheduleNumber", key,
                 rt.scheduler_coordinator) :
             key \in {"min_soc_on_grid", "fd_soc", "fd_pwr", "max_soc"}}

\* sensor.py, async_setup_entry: sensors on the real-time coordinator, the
\* device detail coordinator and the call tracker, one of each here.
SensorEntities(rt) ==
    {Entity("sensor", "FoxESSLastUpdateSensor", "last_update",
            rt.realtime_coordinator),
     Entity("sensor", "FoxESSDeviceDetailSensor", "device_detail",
            rt.device_detail_coordinator),
     Entity("sensor", "FoxESSApiCallCountSensor", "api_calls",
            rt.api_call_tracker)}

\* The async_setup_entry of platform p.
PlatformEntities(p, rt) ==
    CASE p = "sensor" -> SensorEntities(rt)
      [] p = "binary_sensor" -> BinarySensorEntities(rt)
      [] p = "number" -> NumberEntities(rt)
      [] p = "select" -> SelectEntities(rt)
      [] p = "button" -> ButtonEntities(rt)
      [] p = "switch" -> SwitchEntities(rt)
      [] p = "time" -> TimeEntities(rt)

\* async_setup_entry (__init__.py) up to line 103, every first refresh
\* having succeeded: the scheduler coordinator is built when the device
\* has the scheduler function.
AsyncSetupEntry(detail) ==
    /\ runtime_data = None
    /\ runtime_data' = Some(RuntimeData(IF HasScheduler(detail)
                                        THEN Some("scheduler_coordinator")
                                        ELSE None))
    /\ UNCHANGED <<loaded, entities>>
    /\ UNCHANGED <<schedulerVars, serviceVars, configFlowVars>>
    /\ UNCHANGED notGlue

\* async_forward_entry_setups (line 106): the platforms are set up, in any
\* order.
ForwardEntrySetup(p) ==
    /\ runtime_data # None
    /\ p \notin loaded
    /\ loaded' = loaded \cup {p}
    /\ entities' = entities \cup PlatformEntities(p, Get(runtime_data))
    /\ UNCHANGED runtime_data
    /\ UNCHANGED <<schedulerVars, serviceVars, configFlowVars>>
    /\ UNCHANGED notGlue

\* async_unload_entry: the platforms are unloaded with their entities.
AsyncUnloadEntry ==
    /\ runtime_data # None
    /\ loaded = PLATFORMS
    /\ runtime_data' = None
    /\ loaded' = {}
    /\ entities' = {}
    /\ UNCHANGED <<schedulerVars, serviceVars, configFlowVars>>
    /\ UNCHANGED notGlue

NextSetup ==
    \/ \E detail \in Details : AsyncSetupEntry(detail)
    \/ \E p \in PLATFORMS : ForwardEntrySetup(p)
    \/ AsyncUnloadEntry

SpecSetup == Init /\ [][NextSetup]_vars

\* ------------------------------------------------------------ config flow

\* The error the user step shows for what _async_fetch_devices did (lines
\* 69-79 and 180-185).
FetchError(outcome) ==
    CASE outcome.kind = "AuthError" -> "invalid_auth"
      [] outcome.kind \in {"ConnectionError", "ApiError"} -> "cannot_connect"
      [] outcome.kind = "Exception" -> "unknown"
      [] outcome.kind = "ok" ->
            IF outcome.devices = <<>> THEN "no_devices" ELSE ""

\* device_map's keys (lines 115-118).
DeviceMapKeys(devices) == {devices[i].device_sn : i \in DOMAIN devices}

\* lines 129-134: the title of the entry.
EntryTitle(devices, device_sn) ==
    LET selected == devices[CHOOSE i \in DOMAIN devices :
                               devices[i].device_sn = device_sn]
    IN  IF selected.station_name # "" THEN <<selected.station_name>>
        ELSE device_sn

\* A flow is started: async_step_user(None) shows the empty user form.
FlowStart ==
    /\ cflow.result.type \in {"none", "abort", "create_entry"}
    /\ cflow' = ConfigFlow(None, None, None, None, None,
                           FlowResult("form", "user", ""))
    /\ UNCHANGED <<entries, list_calls>>
    /\ UNCHANGED <<schedulerVars, serviceVars, setupVars>>
    /\ UNCHANGED notGlue

\* Faulty variant of StepUser: _async_fetch_devices does not test the key.
StepUserSendsEmptyKey(key) ==
    /\ cflow.result = FlowResult("form", "user", cflow.result.error)
    /\ cflow.pending = None
    /\ cflow' = [cflow EXCEPT !.input = Some(key),
                              !.pending = Some(Strip(key))]
    /\ UNCHANGED <<entries, list_calls>>
    /\ UNCHANGED <<schedulerVars, serviceVars, setupVars>>
    /\ UNCHANGED notGlue

\* async_step_user(user_input) up to its await (lines 67-70, 174-181): the
\* key is stripped; an empty key raises InvalidAuth before a client is
\* built and the form is shown again, another key goes out with
\* async_list_inverters.
StepUser(key) ==
    /\ cflow.result = FlowResult("form", "user", cflow.result.error)
    /\ cflow.pending = None
    /\ LET api_key == Strip(key)
       IN  IF api_key = <<>>
           THEN cflow' = [cflow EXCEPT
                            !.input = Some(key),
                            !.result = FlowResult("form", "user",
                                                  "invalid_auth")]
           ELSE cflow' = [cflow EXCEPT !.input = Some(key),
                                       !.pending = Some(api_key)]
    /\ UNCHANGED <<entries, list_calls>>
    /\ UNCHANGED <<schedulerVars, serviceVars, setupVars>>
    /\ UNCHANGED notGlue

\* async_step_user after its await (lines 71-87) and the
\* async_step_select_device(None) it ends with (lines 94-152): an error
\* shows the user form again, a list of devices is stored with the key and
\* the device form is shown.
StepUserFetched(outcome) ==
    /\ cflow.pending # None
    /\ list_calls' = list_calls \cup
                        {[api_key |-> Get(cflow.pending), outcome |-> outcome]}
    /\ IF FetchError(outcome) # ""
       THEN cflow' = [cflow EXCEPT
                        !.pending = None,
                        !.outcome = Some(outcome),
                        !.result = FlowResult("form", "user",
                                              FetchError(outcome))]
       ELSE cflow' = [cflow EXCEPT
                        !.pending = None,
                        !.outcome = Some(outcome),
                        !.api_key = cflow.pending,
                        !.devices = Some(outcome.devices),
                        !.result = FlowResult("form", "select_device", "")]
    /\ UNCHANGED entries
    /\ UNCHANGED <<schedulerVars, serviceVars, setupVars>>
    /\ UNCHANGED notGlue

\* async_step_select_device(user_input) (lines 94-152) with the key and
\* the devices stored by the user step: a serial that is not in the
\* device map shows the form again, one whose unique id is configured
\* aborts the flow, any other creates the entry.
StepSelectDevice(device_sn) ==
    /\ cflow.result = FlowResult("form", "select_device", cflow.result.error)
    /\ LET devices == Get(cflow.devices)
           unique_id == LowerStr(device_sn)
       IN  IF device_sn \notin DeviceMapKeys(devices)
           THEN /\ cflow' = [cflow EXCEPT
                               !.input = Some(device_sn),
                               !.result = FlowResult("form", "select_device",
                                                     "unknown_device")]
                /\ UNCHANGED entries
           ELSE IF \E e \in entries : e.unique_id = unique_id
           THEN /\ cflow' = [cflow EXCEPT
                               !.input = Some(device_sn),
                               !.result = FlowResult("abort", "",
                                                     "already_configured")]
                /\ UNCHANGED entries
           ELSE /\ cflow' = [cflow EXCEPT
                               !.input = Some(device_sn),
                               !.result = FlowResult("create_entry", "", "")]
                /\ entries' = entries \cup
                      {[unique_id |-> unique_id,
                        title |-> EntryTitle(devices, device_sn),
                        data |-> [api_key |-> Get(cflow.api_key),
                                  device_sn |-> device_sn]]}
    /\ UNCHANGED list_calls
    /\ UNCHANGED <<schedulerVars, serviceVars, setupVars>>
    /\ UNCHANGED notGlue

NextConfigFlow ==
    \/ FlowStart
    \/ \E key \in TypedKeys : StepUser(key)
    \/ \E outcome \in ListOutcomes : StepUserFetched(outcome)
    \/ \E device_sn \in {SerialA, SerialB, SerialX} : StepSelectDevice(device_sn)

SpecConfigFlow == Init /\ [][NextConfigFlow]_vars

\* ------------------------------------------------------ client: inputs

\* Setting keys as callers write them: one the table knows after
\* normalisation, a canonical key, and one the table does not know.
KeyMinSoc == <<"m", "i", "n", "_", "S", "o", "C">>
KeyWorkMode == <<"W", "o", "r", "k", "M", "o", "d", "e">>
KeyBogus == <<"b", "o", "g", "u", "s">>

SerialLists == {<<>>, <<"SN1">>, <<"SN1", "SN2">>}

\* The invocations of SpecClient: every operation of the model with
\* arguments that pass and arguments that fail its checks.
ClientCalls ==
    {ClientOp("async_get_setting", k, "", <<>>, "") :
        k \in {KeyMinSoc, KeyBogus}}
    \cup {ClientOp("async_set_setting", k, "", <<>>, "") :
        k \in {KeyWorkMode, KeyBogus}}
    \cup {ClientOp("async_get_production_report", <<>>, d, <<>>, "") :
        d \in {"day", "week"}}
    \cup {ClientOp("async_get_real_time_data", <<>>, "", sns, v) :
        sns \in SerialLists, v \in {"v0", "v1", "v2"}}
    \cup {ClientOp("async_get_device_detail", <<>>, "", <<>>, ""),
          ClientOp("async_get_scheduler", <<>>, "", <<>>, "")}

\* The invocations of SpecThrottle and SpecSequential: a GET, a POST and
\* an invocation that fails its checks.
TimedCalls ==
    {ClientOp("async_get_device_detail", <<>>, "", <<>>, ""),
     ClientOp("async_get_scheduler", <<>>, "", <<>>, ""),
     ClientOp("async_get_setting", KeyBogus, "", <<>>, "")}

ObjectBody(errno, msg) == Body("object", errno, msg, None, None)

\* The responses of SpecClient.
Responses ==
    {Response(FALSE, 0, Body("malformed", None, None, None, None)),
     Response(TRUE, 401, ObjectBody(Some(0), None)),
     Response(TRUE, 403, ObjectBody(Some(0), None)),
     Response(TRUE, 500, ObjectBody(Some(401), None)),
     Response(TRUE, 500, Body("malformed", None, None, None, None)),
     Response(TRUE, 200, Body("malformed", None, None, None, None)),
     Response(TRUE, 200, Body("other", None, None, None, None)),
     Response(TRUE, 200, ObjectBody(None, Some("no errno here"))),
     Response(TRUE, 200, ObjectBody(Some(0), None)),
     Response(TRUE, 200, ObjectBody(Some(401), Some("bad key"))),
     Response(TRUE, 200, ObjectBody(Some(403), None)),
     Response(TRUE, 200, ObjectBody(Some(41013), Some("invalid token"))),
     Response(TRUE, 200,
              Body("object", Some(40256), Some(""), Some("illegal"), None)),
     Response(TRUE, 200, ObjectBody(Some(500), None))}

\* The responses of SpecThrottle and SpecSequential: success, a transport
\* failure and an API error.
TimedResponses ==
    {Response(TRUE, 200, ObjectBody(Some(0), None)),
     Response(FALSE, 0, Body("malformed", None, None, None, None)),
     Response(TRUE, 200, ObjectBody(Some(41013), Some("invalid token")))}

\* ----------------------------------------------------- client: actions

\* Calls that entered the network layer and have not been sent yet.
Sleeping == {c \in Callers : calls[c].pc = "sleeping"}

CanInvoke(c) ==
    /\ calls[c].pc \in {"idle", "done"}
    /\ http_count + Cardinality(Sleeping) < MaxCalls

\* Faulty variant of RecordApiCall: the hook is never awaited.
RecordApiCallSkipped(cfg, count) == count

\* _record_api_call: the hook is awaited when it is set.  record_call
\* takes a lock nobody holds across an await, so it does not suspend.
RecordApiCall(cfg, count) == IF cfg.on_api_call THEN count + 1 ELSE count

\* The steps of _async_post_json / _async_get_json from the return of
\* _throttle to the request being handed to the session.
TrailAfterThrottle(cfg) ==
    (IF cfg.on_api_call THEN <<"throttle", "record">> ELSE <<"throttle">>)
        \o <<"http">>

\* _throttle's last line and lines 235-255 / 296-316, which run without
\* suspending: _last_call = time(), the tracker is notified, the request
\* is handed to the session.
SendRequest(c, op) ==
    /\ last_call' = now
    /\ tracker_count' = RecordApiCall(config, tracker_count)
    /\ http_count' = http_count + 1
    /\ last_request' = Some([at |-> now, caller |-> c,
                             request |-> BuildRequest(op)])
    /\ calls' = [calls EXCEPT ![c] =
                    [IdleCall EXCEPT !.pc = "sent", !.op = Some(op),
                                     !.trail = TrailAfterThrottle(config),
                                     !.request = Some(BuildRequest(op))]]

\* Faulty variant of InvokeRejected: the checks are made after the
\* throttle and the tracker notification.
InvokeRejectedAfterThrottle(c, op) ==
    /\ calls[c].pc \in {"idle", "done"}
    /\ ~IsNone(Validation(op))
    /\ calls' = [calls EXCEPT ![c] =
                    [IdleCall EXCEPT !.pc = "done", !.op = Some(op),
                                     !.result = Validation(op)]]
    /\ last_call' = now
    /\ tracker_count' = RecordApiCall(config, tracker_count)
    /\ UNCHANGED <<config, now, http_count, last_request>>
    /\ UNCHANGED notClient

\* An operation whose checks fail: FoxESSCloudApiError is raised before
\* _async_post_json is called.
InvokeRejected(c, op) ==
    /\ calls[c].pc \in {"idle", "done"}
    /\ ~IsNone(Validation(op))
    /\ calls' = [calls EXCEPT ![c] =
                    [IdleCall EXCEPT !.pc = "done", !.op = Some(op),
                                     !.result = Validation(op)]]
    /\ UNCHANGED <<config, now, last_call, http_count, tracker_count,
                   last_request>>
    /\ UNCHANGED notClient

\* An operation that passes its checks and finds, in _throttle, that
\* min_interval has elapsed since _last_call: it sends without suspending.
InvokeSend(c, op) ==
    /\ CanInvoke(c)
    /\ IsNone(Validation(op))
    /\ ~(now - last_call < MinInterval)
    /\ SendRequest(c, op)
    /\ UNCHANGED <<config, now>>
    /\ UNCHANGED notClient

\* Faulty variant of InvokeSleep: the task sleeps for delta instead of
\* min_interval - delta.
InvokeSleepForDelta(c, op) ==
    /\ CanInvoke(c)
    /\ IsNone(Validation(op))
    /\ now - last_call < MinInterval
    /\ calls' = [calls EXCEPT ![c] =
                    [IdleCall EXCEPT !.pc = "sleeping", !.op = Some(op),
                        !.wake = now + (now - last_call)]]
    /\ UNCHANGED <<config, now, last_call, http_count, tracker_count,
                   last_request>>
    /\ UNCHANGED notClient

\* An operation that passes its checks and finds, in _throttle, that less
\* than min_interval has elapsed: it awaits
\* asyncio.sleep(min_interval - delta).
InvokeSleep(c, op) ==
    /\ CanInvoke(c)
    /\ IsNone(Validation(op))
    /\ now - last_call < MinInterval
    /\ calls' = [calls EXCEPT ![c] =
                    [IdleCall EXCEPT !.pc = "sleeping", !.op = Some(op),
                        !.wake = now + (MinInterval - (now - last_call))]]
    /\ UNCHANGED <<config, now, last_call, http_count, tracker_count,
                   last_request>>
    /\ UNCHANGED notClient

\* Faulty variant of ThrottleWake: _throttle checks the interval again
\* after its sleep and sleeps again when another task sent meanwhile.
ThrottleWakeRechecks(c) ==
    /\ calls[c].pc = "sleeping"
    /\ now >= calls[c].wake
    /\ IF now - last_call < MinInterval
       THEN /\ calls' = [calls EXCEPT ![c].wake = last_call + MinInterval]
            /\ UNCHANGED <<last_call, http_count, tracker_count,
                           last_request>>
       ELSE SendRequest(c, Get(calls[c].op))
    /\ UNCHANGED <<config, now>>
    /\ UNCHANGED notClient

\* The sleep is over (the loop resumes the task no earlier than `wake`):
\* _throttle stores time() and the request goes out.
ThrottleWake(c) ==
    /\ calls[c].pc = "sleeping"
    /\ now >= calls[c].wake
    /\ SendRequest(c, Get(calls[c].op))
    /\ UNCHANGED <<config, now>>
    /\ UNCHANGED notClient

\* Faulty variant of Respond: a request that failed in transport is sent
\* once more before the error is raised.
RespondRetries(c, resp) ==
    /\ calls[c].pc = "sent"
    /\ LET result == Classify(Get(calls[c].request).method, config.debug,
                              resp)
       IN  IF result.kind = "ConnectionError"
              /\ calls[c].trail[Len(calls[c].trail)] = "http"
           THEN /\ calls' = [calls EXCEPT ![c].trail = @ \o <<"retry">>]
                /\ http_count' = http_count + 1
                /\ last_call' = now
                /\ UNCHANGED <<config, now, tracker_count, last_request>>
           ELSE /\ calls' = [calls EXCEPT ![c] =
                               [@ EXCEPT !.pc = "done",
                                         !.response = Some(resp),
                                         !.result = Some(result)]]
                /\ UNCHANGED <<config, now, last_call, http_count,
                               tracker_count, last_request>>
    /\ UNCHANGED notClient

\* The session's answer arrives and the operation returns or raises.
Respond(c, resp) ==
    /\ calls[c].pc = "sent"
    /\ calls' = [calls EXCEPT ![c] =
                    [@ EXCEPT !.pc = "done", !.response = Some(resp),
                              !.result = Some(Classify(
                                  Get(calls[c].request).method,
                                  config.debug, resp))]]
    /\ UNCHANGED <<config, now, last_call, http_count, tracker_count,
                   last_request>>
    /\ UNCHANGED notClient

\* A second passes.
Tick ==
    /\ now < MaxTime
    /\ now' = now + 1
    /\ UNCHANGED <<config, last_call, calls, http_count, tracker_count,
                   last_request>>
    /\ UNCHANGED notClient

\* -------------------------------------------------------- client: specs

\* The client of async_setup_entry called by concurrent tasks.
InitThrottle ==
    /\ InitCoordinator
    /\ server = SchedulerInfo(1, <<>>)
    /\ ClientInit(SetupEntryClient)
    /\ TrackerInit
    /\ IntervalInit
    /\ HelperInit
    /\ GlueInit

NextThrottle ==
    \/ \E c \in Callers, op \in TimedCalls : InvokeRejected(c, op)
    \/ \E c \in Callers, op \in TimedCalls : InvokeSend(c, op)
    \/ \E c \in Callers, op \in TimedCalls : InvokeSleep(c, op)
    \/ \E c \in Callers : ThrottleWake(c)
    \/ \E c \in Callers, resp \in TimedResponses : Respond(c, resp)
    \/ Tick

SpecThrottle == InitThrottle /\ [][NextThrottle]_vars

\* The same client called sequentially: a call starts only when no other
\* call is running.
NoCallRunning == \A c \in Callers : calls[c].pc \in {"idle", "done"}

NextSequential ==
    \/ \E c \in Callers, op \in TimedCalls :
          NoCallRunning /\ InvokeRejected(c, op)
    \/ \E c \in Callers, op \in TimedCalls :
          NoCallRunning /\ InvokeSend(c, op)
    \/ \E c \in Callers, op \in TimedCalls :
          NoCallRunning /\ InvokeSleep(c, op)
    \/ \E c \in Callers : ThrottleWake(c)
    \/ \E c \in Callers, resp \in TimedResponses : Respond(c, resp)
    \/ Tick

SpecSequential == InitThrottle /\ [][NextSequential]_vars

\* Time goes on past MaxTime for as long as a task's sleep is not over.
TickToWake ==
    /\ now >= MaxTime
    /\ \E c \in Sleeping : now < calls[c].wake
    /\ now' = now + 1
    /\ UNCHANGED <<config, last_call, calls, http_count, tracker_count,
                   last_request>>
    /\ UNCHANGED notClient

\* The concurrent callers of SpecThrottle on a clock that does not stop
\* and an event loop that resumes a task whose sleep is over.
NextThrottleLive ==
    \/ \E c \in Callers, op \in TimedCalls : InvokeRejected(c, op)
    \/ \E c \in Callers, op \in TimedCalls : InvokeSend(c, op)
    \/ \E c \in Callers, op \in TimedCalls : InvokeSleep(c, op)
    \/ \E c \in Callers : ThrottleWake(c)
    \/ \E c \in Callers, resp \in TimedResponses : Respond(c, resp)
    \/ Tick
    \/ TickToWake

SpecThrottleLive ==
    /\ InitThrottle
    /\ [][NextThrottleLive]_vars
    /\ WF_vars(Tick)
    /\ WF_vars(TickToWake)
    /\ \A c \in Callers : WF_vars(ThrottleWake(c))

\* One task calling every operation of a client constructed in any of the
\* three ways, with every response.
InitClient ==
    /\ InitCoordinator
    /\ server = SchedulerInfo(1, <<>>)
    /\ \E cfg \in ClientConfigs : ClientInit(cfg)
    /\ TrackerInit
    /\ IntervalInit
    /\ HelperInit
    /\ GlueInit

NextClient ==
    \/ \E op \in ClientCalls : InvokeRejected("c1", op)
    \/ \E op \in ClientCalls : InvokeSend("c1", op)
    \/ \E op \in ClientCalls : InvokeSleep("c1", op)
    \/ ThrottleWake("c1")
    \/ \E resp \in Responses : Respond("c1", resp)
    \/ Tick

SpecClient == InitClient /\ [][NextClient]_vars

\* A coordinator's refreshes next to the client's calls: the scheduler
\* coordinator fetching, and one task calling the two operations the
\* coordinators' refreshes use.
RefreshCalls ==
    {ClientOp("async_get_device_detail", <<>>, "", <<>>, ""),
     ClientOp("async_get_scheduler", <<>>, "", <<>>, "")}

NextRefresh ==
    \/ AsyncGetScheduler
    \/ UpdateDataOk
    \/ UpdateDataFail
    \/ \E op \in RefreshCalls : InvokeSend("c1", op)
    \/ \E op \in RefreshCalls : InvokeSleep("c1", op)
    \/ ThrottleWake("c1")
    \/ \E resp \in Responses : Respond("c1", resp)
    \/ Tick

SpecRefresh == InitThrottle /\ [][NextRefresh]_vars

\* ---------------------------------------------------- tracker: actions

\* record_call operations started and not yet finished.
Recording == {t \in TrackerTasks : tracker[t].pc \in {"rec_lock", "rec_body"}}

\* record_call up to the await of the lock: the timestamp is the clock's,
\* no caller passes now, and the bucket is computed from it before the
\* lock is taken.
RecordBegin(t) ==
    /\ tracker[t].pc = "idle"
    /\ Len(recorded) + Cardinality(Recording) < MaxRecords
    /\ tracker' = [tracker EXCEPT
                     ![t] = TrackerOp("rec_lock", tnow, BucketFor(tnow), None)]
    /\ UNCHANGED <<tnow, buckets, lock, recorded>>
    /\ UNCHANGED notTracker

\* count_last_24h up to the await of the lock.
CountBegin(t) ==
    /\ tracker[t].pc = "idle"
    /\ tracker' = [tracker EXCEPT
                     ![t] = TrackerOp("cnt_lock", tnow,
                                      BucketFor(tnow - Window), None)]
    /\ UNCHANGED <<tnow, buckets, lock, recorded>>
    /\ UNCHANGED notTracker

\* async with self._lock: the task goes on when the lock is free.
Acquire(t) ==
    /\ tracker[t].pc \in {"rec_lock", "cnt_lock"}
    /\ lock = None
    /\ lock' = Some(t)
    /\ tracker' = [tracker EXCEPT
                     ![t].pc = IF tracker[t].pc = "rec_lock"
                               THEN "rec_body" ELSE "cnt_body"]
    /\ UNCHANGED <<tnow, buckets, recorded>>
    /\ UNCHANGED notTracker

\* Faulty variant of RecordBody: the bucket is set to one instead of
\* being incremented.
RecordBodyOverwrites(t) ==
    /\ tracker[t].pc = "rec_body"
    /\ lock = Some(t)
    /\ buckets' = PruneLocked(BucketSet(buckets, tracker[t].bucket, 1),
                              tracker[t].ts)
    /\ recorded' = Append(recorded, tracker[t].ts)
    /\ lock' = None
    /\ tracker' = [tracker EXCEPT ![t].pc = "idle"]
    /\ UNCHANGED tnow
    /\ UNCHANGED notTracker

\* The body of record_call under the lock, which has no await: the
\* bucket is incremented, the stale buckets are pruned, the lock is
\* released.
RecordBody(t) ==
    /\ tracker[t].pc = "rec_body"
    /\ lock = Some(t)
    /\ buckets' = PruneLocked(
                      BucketSet(buckets, tracker[t].bucket,
                                BucketGet(buckets, tracker[t].bucket) + 1),
                      tracker[t].ts)
    /\ recorded' = Append(recorded, tracker[t].ts)
    /\ lock' = None
    /\ tracker' = [tracker EXCEPT ![t].pc = "idle"]
    /\ UNCHANGED tnow
    /\ UNCHANGED notTracker

\* Faulty variant of CountBody: every bucket is summed, nothing is pruned.
CountBodySumsAll(t) ==
    /\ tracker[t].pc = "cnt_body"
    /\ lock = Some(t)
    /\ lock' = None
    /\ tracker' = [tracker EXCEPT
                     ![t].pc = "idle",
                     ![t].counted = Some(SumFrom(buckets, DOMAIN buckets, 0))]
    /\ UNCHANGED <<tnow, buckets, recorded>>
    /\ UNCHANGED notTracker

\* The body of count_last_24h under the lock: prune, then sum the
\* buckets from the cutoff bucket on.
CountBody(t) ==
    /\ tracker[t].pc = "cnt_body"
    /\ lock = Some(t)
    /\ buckets' = PruneLocked(buckets, tracker[t].ts)
    /\ lock' = None
    /\ tracker' = [tracker EXCEPT
                     ![t].pc = "idle",
                     ![t].counted = Some(SumFrom(buckets', DOMAIN buckets',
                                                 tracker[t].bucket))]
    /\ UNCHANGED <<tnow, recorded>>
    /\ UNCHANGED notTracker

\* The clock goes on, by half an hour or by 24 hours.
ClockSteps == {1, Window}

AdvanceClock(d) ==
    /\ (tnow + d - TrackerStart) \div Window <= MaxDays
    /\ (tnow + d - TrackerStart) % Window <= MaxOffset
    /\ tnow' = tnow + d
    /\ UNCHANGED <<buckets, lock, tracker, recorded>>
    /\ UNCHANGED notTracker

\* ------------------------------------------------------ tracker: specs

\* One task records and counts, one operation after the other, while the
\* clock goes on.
NextTracker ==
    \/ RecordBegin("t1")
    \/ CountBegin("t1")
    \/ Acquire("t1")
    \/ RecordBody("t1")
    \/ CountBody("t1")
    \/ \E d \in ClockSteps : AdvanceClock(d)

SpecTracker == Init /\ [][NextTracker]_vars

\* The tasks record and count at the same time, within the hour in which
\* the tracker was constructed.
SameHour(d) == BucketFor(tnow + d) = BucketFor(TrackerStart)

NextTrackerConcurrent ==
    \/ \E t \in TrackerTasks : RecordBegin(t)
    \/ \E t \in TrackerTasks : CountBegin(t)
    \/ \E t \in TrackerTasks : Acquire(t)
    \/ \E t \in TrackerTasks : RecordBody(t)
    \/ \E t \in TrackerTasks : CountBody(t)
    \/ \E d \in ClockSteps : SameHour(d) /\ AdvanceClock(d)

SpecTrackerConcurrent == Init /\ [][NextTrackerConcurrent]_vars

\* ------------------------------------------- helpers: setting keys

\* str.upper() on one character.
Upper(ch) ==
    IF \E i \in 1..26 : LowerCase[i] = ch
    THEN UpperCase[CHOOSE i \in 1..26 : LowerCase[i] = ch]
    ELSE ch

\* The key with ch put before position i.
InsertAt(key, i, ch) ==
    [j \in 1..(Len(key) + 1) |->
        IF j < i THEN key[j] ELSE IF j = i THEN ch ELSE key[j - 1]]

\* The characters _canonical_setting_key removes.
Separators == {"_", "-"}

\* The keys of a set with up to n separators put in anywhere.
RECURSIVE WithSeparators(_, _)
WithSeparators(keys, n) ==
    IF n = 0 THEN keys
    ELSE LET fewer == WithSeparators(keys, n - 1)
         IN  fewer \cup UNION {{InsertAt(key, i, ch) :
                                   i \in 1..(Len(key) + 1), ch \in Separators} :
                                 key \in fewer}

\* The values of _SETTING_KEYS.
CanonicalKeys == {row[2] : row \in SETTING_KEYS}

\* Keys no row of the table stands for: the empty key, a key cut short,
\* a key with a letter too many, another word.
UnknownKeys ==
    {<<>>, <<"M", "i", "n", "S", "o">>, <<"M", "i", "n", "S", "o", "c", "s">>,
     KeyBogus}

\* The keys given to _canonical_setting_key: the canonical keys, the same
\* in lower and in upper case, and the unknown keys, each with up to
\* MaxSeparators separators.
SettingKeyInputs ==
    LET lower == {[i \in 1..Len(key) |-> Lower(key[i])] : key \in CanonicalKeys}
        upper == {[i \in 1..Len(key) |-> Upper(key[i])] : key \in CanonicalKeys}
        plain == CanonicalKeys \cup lower \cup upper \cup UnknownKeys
    IN  WithSeparators(plain, MaxSeparators)

\* A _canonical_setting_key call: its argument, the key it returned or the
\* error it raised, and whether the argument was the result of the call
\* before.
KeyCall(key, again) ==
    [key |-> key,
     result |-> CanonicalSettingKey(key),
     raised |-> IF CanonicalSettingKey(key) = None
                THEN Some("ApiError") ELSE None,
     again |-> again]

\* _canonical_setting_key(key), the first call of a behaviour.
CanonicalSettingKeyCall(key) ==
    /\ canonical = None
    /\ canonical' = Some(KeyCall(key, FALSE))
    /\ UNCHANGED signed
    /\ UNCHANGED notHelper

\* _canonical_setting_key on the key the last call returned.
CanonicalSettingKeyAgain ==
    /\ canonical # None
    /\ Get(canonical).result # None
    /\ canonical' = Some(KeyCall(Get(Get(canonical).result), TRUE))
    /\ UNCHANGED signed
    /\ UNCHANGED notHelper

NextSettingKey ==
    \/ \E key \in SettingKeyInputs : CanonicalSettingKeyCall(key)
    \/ CanonicalSettingKeyAgain

SpecSettingKey == Init /\ [][NextSettingKey]_vars

\* ---------------------------------------------- helpers: signature

\* Strings are sequences of characters here as well.

PathDeviceDetail ==
    <<"/", "o", "p", "/", "v", "1", "/", "d", "e", "v", "i", "c", "e", "/",
    "d", "e", "t", "a", "i", "l">>

PathSchedulerGet ==
    <<"/", "o", "p", "/", "v", "1", "/", "d", "e", "v", "i", "c", "e", "/",
    "s", "c", "h", "e", "d", "u", "l", "e", "r", "/", "g", "e", "t">>

PathSettingSet ==
    <<"/", "o", "p", "/", "v", "0", "/", "d", "e", "v", "i", "c", "e", "/",
    "s", "e", "t", "t", "i", "n", "g", "/", "s", "e", "t">>

\* The paths the client signs.
Paths == {PathDeviceDetail, PathSchedulerGet, PathSettingSet}

\* self.api_key: two keys, one a prefix of the other.
ApiKeys == {<<"k", "e", "y">>, <<"k", "e", "y", "2">>}

\* str(n) for n >= 0.
DecimalDigits == <<"0", "1", "2", "3", "4", "5", "6", "7", "8", "9">>

RECURSIVE Str(_)
Str(n) ==
    IF n < 10 THEN <<DecimalDigits[n + 1]>>
    ELSE Str(n \div 10) \o <<DecimalDigits[(n % 10) + 1]>>

\* _timestamp_ms at second t: str(int(time() * 1000))
TimestampMs(t) == Str(t * 1000)

\* The timestamps signed: those of the seconds of the client's clock.
Timestamps == {TimestampMs(t) : t \in StartTime..MaxTime}

\* md5(text.encode(), usedforsecurity=False).hexdigest(): the digest is
\* not computed, it is the term "MD5 hex digest of text".
Md5HexDigest(text) == [md5_hexdigest_of |-> text]

\* Faulty variant of SignatureText: the separators are the CR and LF
\* characters.
SignatureTextCRLF(path, api_key, timestamp) ==
    path \o <<"\r", "\n">> \o api_key \o <<"\r", "\n">> \o timestamp

\* f"{path}\\r\\n{self.api_key}\\r\\n{timestamp}": the separator is
\* backslash, r, backslash, n.
SignatureText(path, api_key, timestamp) ==
    path \o <<"\\", "r", "\\", "n">> \o api_key
         \o <<"\\", "r", "\\", "n">> \o timestamp

\* _generate_signature(path, timestamp) of a client with self.api_key.
GenerateSignature(path, api_key, timestamp) ==
    Md5HexDigest(SignatureText(path, api_key, timestamp))

\* A _generate_signature call: its inputs and what it returned.
Signed(path, api_key, timestamp) ==
    [path |-> path, api_key |-> api_key, timestamp |-> timestamp,
     signature |-> GenerateSignature(path, api_key, timestamp)]

\* _generate_signature is called; the model keeps the last two calls.
GenerateSignatureCall(path, api_key, timestamp) ==
    /\ signed' = IF signed = None
                 THEN <<Signed(path, api_key, timestamp)>>
                 ELSE <<signed[Len(signed)], Signed(path, api_key, timestamp)>>
    /\ UNCHANGED canonical
    /\ UNCHANGED notHelper

NextSignature ==
    \E path \in Paths, api_key \in ApiKeys, timestamp \in Timestamps :
        GenerateSignatureCall(path, api_key, timestamp)

SpecSignature == Init /\ [][NextSignature]_vars

\* ----------------------------------------------------- interval: spec

\* The options flow is submitted, the entry is loaded and the real-time
\* coordinator is built, in any order.
NextInterval ==
    \/ \E value \in IntervalInputs : OptionsFlowStepInit(value)
    \/ \E value \in IntervalInputs : LoadEntry(value)
    \/ RealTimeCoordinatorInit

SpecInterval == Init /\ [][NextInterval]_vars

\* ================================================================ claims

\* The group the documentation gives as the default group.
DocumentedDefault ==
    [enable |-> 0, start_hour |-> 0, start_minute |-> 0, end_hour |-> 0,
     end_minute |-> 0, work_mode |-> "SelfUse", min_soc_on_grid |-> 20,
     fd_soc |-> 20, fd_pwr |-> 10000, max_soc |-> 100]

FetchedOk == last_step = Step("fetch", TRUE, "", TRUE)
EditedOk == last_step.op = "update_group" /\ last_step.ok
EditRaised == last_step.op = "update_group" /\ ~last_step.ok
SubmittedOk == last_step = Step("submit", TRUE, "", FALSE)
Restored == last_step = Step("restore", TRUE, "", TRUE)

\* C1: while dirty is true no step of a scheduler fetch changes the staged
\* group: issuing the request, a failed fetch, and a successful fetch that
\* completes with dirty = true all leave staging (and dirty) as they were,
\* whatever groups the server returned.
C1_DirtyFetchKeepsStaging ==
    [][(dirty /\ (AsyncGetScheduler \/ UpdateDataOk \/ UpdateDataFail))
          => (staging' = staging /\ dirty')]_vars

\* C1 witness: a fetch has just completed while dirty, the server's first
\* group differs from the staged group, and the staged group is still there.
C1_Witness ==
    /\ FetchedOk
    /\ dirty
    /\ Get(last_scheduler).groups # <<>>
    /\ Get(last_scheduler).groups[1] # staging

\* C2: a successful fetch with dirty = false replaces staging with the first
\* group of the server's list, whatever follows it in the list, and with the
\* default group when the list is empty; dirty stays false.
C2_CleanFetchTakesFirstGroup ==
    [][(~dirty /\ UpdateDataOk)
          => /\ ~dirty'
             /\ LET gs == Get(fetch.result).groups
                IN  staging' = IF Len(gs) = 0 THEN DocumentedDefault
                               ELSE Head(gs)]_vars

\* C2 witness: a fetch of a list of two different groups has just completed
\* with dirty = false, and the first of them is staged.
C2_Witness ==
    /\ FetchedOk
    /\ ~dirty
    /\ Len(Get(last_scheduler).groups) = 2
    /\ Get(last_scheduler).groups[1] # Get(last_scheduler).groups[2]
    /\ staging = Get(last_scheduler).groups[1]

\* C3: a successful update_group sets exactly the provided fields of the
\* staged group and leaves every other field as it was, sets dirty = true,
\* leaves the last fetched server state unchanged, and pushes the view of
\* the new staged group to the observers.
C3_UpdateGroupFrame ==
    [][(edits' # edits)
          => LET a == last_step'.args
             IN  /\ last_step'.op = "update_group"
                 /\ last_step'.ok
                 /\ \A f \in Fields :
                       staging'[f] = IF f \in Provided(a) THEN Get(a[f])
                                     ELSE staging[f]
                 /\ dirty'
                 /\ last_scheduler' = last_scheduler
                 /\ ~IsNone(data')
                 /\ Get(data').groups = <<staging'>>
                 /\ last_step'.notified]_vars

\* C3 witness: after a fetch of a non-default group, an update_group with
\* work_mode alone has changed work_mode and nothing else.
C3_Witness ==
    /\ EditedOk
    /\ Provided(last_step.args) = {"work_mode"}
    /\ dirty
    /\ ~IsNone(last_scheduler)
    /\ Get(last_scheduler).groups # <<>>
    /\ staging # Get(last_scheduler).groups[1]
    /\ staging = [Get(last_scheduler).groups[1]
                     EXCEPT !.work_mode = "ForceCharge"]
    /\ Get(data).groups = <<staging>>

\* Exactly one argument of a time pair is provided.
HalfPair(a, hour, minute) == Cardinality(Provided(a) \cap {hour, minute}) = 1
HalfOfSomePair(a) ==
    \/ HalfPair(a, "start_hour", "start_minute")
    \/ HalfPair(a, "end_hour", "end_minute")

\* C4: update_group raises a validation error exactly when one of
\* start_hour/start_minute, or one of end_hour/end_minute, is given without
\* the other, whatever accompanies it; the raising call leaves staging,
\* dirty, the last fetched state and the published view unchanged and does
\* not notify the observers.
C4_HalfPairRaises ==
    [][(last_step'.op = "update_group" /\ last_step' # last_step)
          => LET a == last_step'.args
             IN  /\ last_step'.ok <=> ~HalfOfSomePair(a)
                 /\ last_step'.ok => edits' # edits
                 /\ ~last_step'.ok
                       => /\ UNCHANGED <<staging, dirty, last_scheduler, data>>
                          /\ last_step'.error = "ValueError"
                          /\ ~last_step'.notified]_vars

\* C4 witness: an update_group with enable and start_hour but no
\* start_minute has just raised in a state that an earlier edit had made
\* dirty; enable is not applied and the earlier edit is what is published.
C4_Witness ==
    /\ EditRaised
    /\ Provided(last_step.args) = {"enable", "start_hour"}
    /\ staging.enable # Get(last_step.args.enable)
    /\ dirty
    /\ edits = 1
    /\ staging # DocumentedDefault
    /\ Get(data).groups = <<staging>>

\* C5: submit clears dirty only when it resumes after the server accepted
\* the set-scheduler request, never when it sends the request, and a refresh
\* is requested only by that same resumption, with dirty already false.
\* Apart from a successful submit only restore clears dirty.
C5_SubmitOrder ==
    [][/\ (dirty /\ ~dirty')
            => \/ Restore
               \/ (submit.pc = "replied" /\ submit'.pc = "idle")
       /\ (~refresh_requested /\ refresh_requested')
            => (submit.pc = "replied" /\ submit'.pc = "idle" /\ ~dirty')
       /\ SubmitSend => UNCHANGED <<dirty, refresh_requested>>
       /\ SubmitReturn => (~dirty' /\ refresh_requested')]_vars

\* C5 witness: a submit of an edited group has returned: the server holds
\* the group, dirty is false and a refresh is requested.
C5_Witness ==
    /\ SubmittedOk
    /\ edits = 1
    /\ ~dirty
    /\ refresh_requested
    /\ server.groups = <<staging>>
    /\ staging # DocumentedDefault

\* C6: the request of a submit carries exactly one group, the staged group
\* as it was when submit was called; it does not change while in flight, and
\* it is the group list the server stores when it accepts.
C6_SubmitSendsStagedGroup ==
    [][/\ SubmitSend => Get(submit'.req).groups = <<staging>>
       /\ submit'.pc # "idle" => Len(Get(submit'.req).groups) = 1
       /\ (submit.pc # "idle" /\ submit'.pc # "idle")
             => submit'.req = submit.req
       /\ SetSchedulerAccepted
             => server'.groups = Get(submit.req).groups]_vars

\* C6 witness: the server has accepted a request whose group is no longer
\* the staged one, because of an edit made after submit was called.
C6_Witness ==
    /\ submit.pc = "replied"
    /\ Len(Get(submit.req).groups) = 1
    /\ Get(submit.req).groups[1] # staging
    /\ server.groups = Get(submit.req).groups

\* C7: restore stages the first group of the last fetched state when there
\* is one with at least one group and the default group otherwise, clears
\* dirty, leaves the last fetched state unchanged, and a second restore
\* right after the first changes nothing.
C7_Restore ==
    [][Restore
          => /\ staging' =
                   IF IsNone(last_scheduler) THEN DocumentedDefault
                   ELSE IF Len(Get(last_scheduler).groups) = 0
                        THEN DocumentedDefault
                        ELSE Head(Get(last_scheduler).groups)
             /\ ~dirty'
             /\ last_scheduler' = last_scheduler
             /\ Restored => UNCHANGED <<staging, dirty, last_scheduler,
                                        data>>]_vars

\* C7 witness: a restore has thrown an edit away and the first group of the
\* last fetched state is staged again.
C7_Witness ==
    /\ Restored
    /\ edits = 1
    /\ ~dirty
    /\ ~IsNone(last_scheduler)
    /\ Get(last_scheduler).groups # <<>>
    /\ staging = Get(last_scheduler).groups[1]

\* C8: every successful fetch stores the server state it received as the
\* last fetched state, with dirty true as with dirty false.
C8_FetchStoresServerState ==
    [][UpdateDataOk => last_scheduler' = fetch.result]_vars

\* C8 witness: a fetch has completed while dirty: the empty list it received
\* is stored although staging was not reset to the default group.
C8_Witness ==
    /\ FetchedOk
    /\ dirty
    /\ Get(last_scheduler).groups = <<>>
    /\ staging # DocumentedDefault

\* C9: a new coordinator is not dirty, has no last fetched state and stages
\* the documented default group; a fetch of an empty list with dirty = false
\* and a restore with nothing (or no group) fetched stage that same group.
C9_DefaultGroup ==
    /\ (staging = DocumentedDefault /\ ~dirty /\ IsNone(last_scheduler))
    /\ [][/\ (UpdateDataOk /\ ~dirty /\ Get(fetch.result).groups = <<>>)
               => staging' = DocumentedDefault
          /\ (Restore /\ IsNone(last_scheduler))
               => staging' = DocumentedDefault
          /\ (Restore /\ ~IsNone(last_scheduler)
                      /\ Get(last_scheduler).groups = <<>>)
               => staging' = DocumentedDefault]_vars

\* C9 witness: a restore with nothing fetched has reset an edited group to
\* the documented default group.
C9_Witness ==
    /\ Restored
    /\ edits = 1
    /\ IsNone(last_scheduler)
    /\ staging = DocumentedDefault

\* C10: a published view holds exactly one group, the staged group, and the
\* master flag of the last fetched state, or 1 when nothing was fetched.
C10_PublishedView ==
    ~IsNone(data)
       => /\ Len(Get(data).groups) = 1
          /\ Get(data).groups[1] = staging
          /\ Get(data).enable = IF IsNone(last_scheduler) THEN 1
                                ELSE Get(last_scheduler).enable

\* C10 witness: a view is published whose group is an edited group and whose
\* master flag is the 0 that was fetched.
C10_Witness ==
    /\ ~IsNone(data)
    /\ ~IsNone(last_scheduler)
    /\ Get(last_scheduler).enable = 0
    /\ Get(data).enable = 0
    /\ dirty
    /\ Get(data).groups[1] # Get(last_scheduler).groups[1]

\* C11: whenever dirty is false the staged group is confirmed: it is the
\* group of the last submit that returned normally, the first group of the
\* last fetched state (the default group when that state has no group or
\* nothing was fetched).  An edit made while a submit is in flight is never
\* left staged with dirty = false.
C11_CleanStagingIsConfirmed ==
    ~dirty
       => \/ staging = RestoredGroup(last_scheduler)
          \/ staging = DefaultGroup
          \/ ~IsNone(last_submitted) /\ staging = Get(last_submitted)

\* C12: in every reachable state the staged group has its start and end
\* hour in 0..23 and its start and end minute in 0..59.
C12_StagedTimesInRange ==
    /\ staging.start_hour \in 0..23
    /\ staging.end_hour \in 0..23
    /\ staging.start_minute \in 0..59
    /\ staging.end_minute \in 0..59

\* A request has just been handed to the session.
RequestSent == http_count' = http_count + 1

\* C13: with sequential calls (each started after the previous one
\* returned or raised), every request starts at least min_interval after
\* the request before it, for GET and POST and after a failed request.
C13_SequentialGap ==
    [][(RequestSent /\ ~IsNone(last_request))
          => Get(last_request').at - Get(last_request).at >= MinInterval]_vars

\* C13 witness: a POST failed with a connection error, the next call, a
\* GET, was made less than min_interval after it and its request went out
\* min_interval after the first one.
C13_Witness ==
    /\ http_count = 2
    /\ calls["c1"].pc = "done"
    /\ Get(calls["c1"].request).method = "POST"
    /\ Get(calls["c1"].result).kind = "ConnectionError"
    /\ calls["c2"].pc = "sent"
    /\ Get(calls["c2"].request).method = "GET"
    /\ Get(last_request).caller = "c2"
    /\ Get(last_request).at = StartTime + MinInterval
    /\ last_call = StartTime + MinInterval

\* C14: with concurrent callers, whenever a task's request leaves the
\* throttle, at least min_interval has passed since the last request that
\* left it, whichever task sent that one.
C14_ConcurrentGap ==
    [][\A c \in Callers :
          (calls[c].pc # "sent" /\ calls'[c].pc = "sent"
              /\ ~IsNone(last_request))
            => now' - Get(last_request).at >= MinInterval]_vars

\* The calls whose request was handed to the session.
Requested == {c \in Callers : ~IsNone(calls[c].request)}

Answered == {c \in Callers : ~IsNone(calls[c].response)}
ResponseOf(c) == Get(calls[c].response)
ResultOf(c) == Get(calls[c].result)
MethodOf(c) == Get(calls[c].request).method

\* The response arrived with a status below 400 and a JSON object that has
\* an errno.
HasErrno(resp) ==
    /\ resp.transport
    /\ resp.status < 400
    /\ resp.body.form = "object"
    /\ ~IsNone(resp.body.errno)

\* C16: for GET and for POST, a response with HTTP status 401, or with a
\* body errno of 401 or 403, raises an authentication error; errno 0 is
\* success; any other errno raises an API error that is not an
\* authentication error and carries the errno and the body's message.
C16_ErrnoClassification ==
    \A c \in Answered :
        LET resp == ResponseOf(c)
            errno == Get(resp.body.errno)
        IN  /\ (resp.transport /\ resp.status = 401)
                  => ResultOf(c).kind = "AuthError"
            /\ (HasErrno(resp) /\ errno \in {401, 403})
                  => ResultOf(c).kind = "AuthError"
            /\ (HasErrno(resp) /\ errno = 0) => ResultOf(c).kind = "ok"
            /\ (HasErrno(resp) /\ errno \notin {0, 401, 403})
                  => /\ ResultOf(c).kind = "ApiError"
                     /\ ResultOf(c).code = Some(errno)
                     /\ Truthy(resp.body.msg)
                           => ResultOf(c).message = Get(resp.body.msg)

\* C16 witness: a GET answered {"errno": 41013, "msg": "invalid token"}
\* raised an API error with code 41013 and that message.
C16_Witness ==
    /\ "c1" \in Answered
    /\ MethodOf("c1") = "GET"
    /\ ResponseOf("c1").status = 200
    /\ ResponseOf("c1").body.errno = Some(41013)
    /\ ResultOf("c1") = Result("ApiError", Some(41013), "invalid token")

\* C17: a response whose body is not JSON, is JSON but not an object, or
\* is an object without errno raises an API error, not a connection error
\* and not an authentication error.
C17_BadBodyIsApiError ==
    \A c \in Answered :
        LET resp == ResponseOf(c)
        IN  (/\ resp.transport
             /\ resp.status < 400
             /\ \/ resp.body.form \in {"malformed", "other"}
                \/ resp.body.form = "object" /\ IsNone(resp.body.errno))
               => ResultOf(c).kind = "ApiError"

\* C18: a request that fails in transport (network, timeout), and a
\* response with an HTTP error status other than 401, raises a connection
\* error; the status is looked at before the body, so HTTP 401 raises an
\* authentication error and HTTP 500 a connection error whatever errno the
\* body carries.
C18_TransportAndStatus ==
    \A c \in Answered :
        LET resp == ResponseOf(c)
        IN  /\ ~resp.transport => ResultOf(c).kind = "ConnectionError"
            /\ (resp.transport /\ resp.status >= 400 /\ resp.status # 401)
                  => ResultOf(c).kind = "ConnectionError"
            /\ (resp.transport /\ resp.status = 401)
                  => ResultOf(c) =
                        Result("AuthError", None, "Authentication failed")

\* C18 witness: a POST answered with HTTP 500 and a body whose errno is 401
\* raised a connection error.
C18_Witness ==
    /\ "c1" \in Answered
    /\ MethodOf("c1") = "POST"
    /\ ResponseOf("c1").status = 500
    /\ ResponseOf("c1").body.errno = Some(401)
    /\ ResultOf("c1").kind = "ConnectionError"

\* The invocations the documentation lists as failing validation.
UnknownKey(op) ==
    /\ op.name \in {"async_get_setting", "async_set_setting"}
    /\ op.key = KeyBogus
BadDimension(op) ==
    /\ op.name = "async_get_production_report"
    /\ op.dimension \notin {"year", "month", "day"}
BadRealTimeQuery(op) ==
    /\ op.name = "async_get_real_time_data"
    /\ \/ Len(op.sns) = 0
       \/ op.api_version \notin {"v0", "v1"}
       \/ op.api_version = "v0" /\ Len(op.sns) # 1
FailsValidation(op) == UnknownKey(op) \/ BadDimension(op) \/ BadRealTimeQuery(op)

\* Task c makes a new call in this step.
Invokes(c) == calls[c].pc \in {"idle", "done"} /\ calls'[c] # calls[c]

\* C19: an invocation that fails validation raises an API error at once:
\* no HTTP request is sent, _last_call is unchanged and the call tracker
\* is not notified.
C19_ValidationBeforeNetwork ==
    [][\A c \in Callers :
          (Invokes(c) /\ FailsValidation(Get(calls'[c].op)))
            => /\ calls'[c].pc = "done"
               /\ Get(calls'[c].result).kind = "ApiError"
               /\ IsNone(calls'[c].request)
               /\ calls'[c].trail = <<>>
               /\ UNCHANGED <<http_count, last_call, tracker_count,
                              last_request>>]_vars

\* C19 witness: on the client wired to the tracker, right after one
\* request, a v0 real-time query with two serials was rejected; the
\* request, the throttle time and the tracker count are those of the
\* first request.
C19_Witness ==
    /\ config.on_api_call
    /\ calls["c1"].pc = "done"
    /\ Get(calls["c1"].op).name = "async_get_real_time_data"
    /\ Get(calls["c1"].op).api_version = "v0"
    /\ Len(Get(calls["c1"].op).sns) = 2
    /\ Get(calls["c1"].result).kind = "ApiError"
    /\ IsNone(calls["c1"].request)
    /\ http_count = 1
    /\ tracker_count = 1
    /\ last_call = StartTime
    /\ now = StartTime + 1

\* The real-time queries the documentation says are accepted.
IsRealTimeQuery(op) == op.name = "async_get_real_time_data"
Accepted(op) ==
    /\ Len(op.sns) >= 1
    /\ op.api_version \in {"v0", "v1"}
    /\ op.api_version = "v0" => Len(op.sns) = 1

\* C20: a real-time query is rejected with an API error exactly when its
\* serial list is empty, its api_version is neither v0 nor v1, or it is a
\* v0 query with other than one serial.  An accepted query sends one POST
\* and no more: to the v1 path with the whole serial list, or to the v0
\* path with the single serial.
C20_RealTimeQuery ==
    [][\A c \in Callers :
          LET op == Get(calls'[c].op)
              req == Get(calls'[c].request)
          IN  /\ (Invokes(c) /\ IsRealTimeQuery(op))
                    => /\ Accepted(op) <=> calls'[c].pc \in {"sleeping", "sent"}
                       /\ ~Accepted(op)
                             => /\ calls'[c].pc = "done"
                                /\ Get(calls'[c].result).kind = "ApiError"
              /\ (calls[c].pc # "sent" /\ calls'[c].pc = "sent"
                     /\ IsRealTimeQuery(op))
                    => /\ http_count' = http_count + 1
                       /\ req.method = "POST"
                       /\ op.api_version = "v1"
                             => /\ req.path = "/op/v1/device/real/query"
                                /\ req.payload.sns = Some(op.sns)
                                /\ IsNone(req.payload.sn)
                       /\ op.api_version = "v0"
                             => /\ req.path = "/op/v0/device/real/query"
                                /\ req.payload.sn = Some(op.sns[1])
                                /\ IsNone(req.payload.sns)
              /\ calls[c].pc = "sent" => http_count' = http_count]_vars

\* C20 witness: a v1 query with two serials has sent the only request so
\* far, a POST carrying both, and has returned.
C20_Witness ==
    /\ calls["c1"].pc = "done"
    /\ Get(calls["c1"].op).name = "async_get_real_time_data"
    /\ Get(calls["c1"].op).api_version = "v1"
    /\ Get(calls["c1"].result).kind = "ok"
    /\ http_count = 1
    /\ Get(calls["c1"].request).method = "POST"
    /\ Get(calls["c1"].request).payload.sns = Some(<<"SN1", "SN2">>)
    /\ Get(last_request).request = Get(calls["c1"].request)

\* The response is not a success: anything but a readable object with
\* errno 0.
Failure(resp) == ~(HasErrno(resp) /\ resp.body.errno = Some(0))

\* C21: nothing is retried.  A call whose request was answered returns or
\* raises in that step: a failure is raised as an error, and no further
\* request, throttle wait or tracker notification follows.  A refresh whose
\* client call failed ends as a failed refresh: it makes no second call and
\* requests no refresh.
C21_NoRetry ==
    [][/\ \A c \in Callers :
            (calls[c].pc = "sent" /\ calls'[c] # calls[c])
              => /\ calls'[c].pc = "done"
                 /\ calls'[c].trail = calls[c].trail
                 /\ Failure(Get(calls'[c].response))
                       => Get(calls'[c].result).kind
                              \in {"AuthError", "ConnectionError", "ApiError"}
                 /\ UNCHANGED <<http_count, last_call, tracker_count,
                                last_request>>
       /\ (fetch.pc = "failed" /\ fetch' # fetch)
              => /\ fetch' = Idle
                 /\ last_step' = Step("fetch", FALSE, "UpdateFailed", TRUE)
                 /\ ~refresh_requested']_vars

\* C21 witness: the only request of a call failed in transport and the
\* call raised a connection error; a refresh has been reported as failed.
C21_Witness ==
    /\ calls["c1"].pc = "done"
    /\ ~Get(calls["c1"].response).transport
    /\ Get(calls["c1"].result).kind = "ConnectionError"
    /\ calls["c1"].trail = <<"throttle", "record", "http">>
    /\ http_count = 1
    /\ last_step = Step("fetch", FALSE, "UpdateFailed", TRUE)
    /\ fetch = Idle

\* ---------------------------------------------------------------- tracker

\* count_last_24h of task t returns in this step.
CountReturns(t) == tracker[t].pc = "cnt_body" /\ tracker'[t].pc = "idle"

\* Every recorded call is at or before ts and the first of them at most
\* 24 hours before ts.
AllWithinWindow(ts) ==
    /\ \A i \in DOMAIN recorded : recorded[i] <= ts
    /\ \A i, j \in DOMAIN recorded : i <= j => recorded[i] <= recorded[j]
    /\ recorded # <<>> => ts <= recorded[1] + Window

\* C22: after C calls recorded at non-decreasing times, a count asked no
\* later than 24 hours after the first of them returns C.
C22_CountWithinWindow ==
    [][\A t \in TrackerTasks :
          (CountReturns(t) /\ AllWithinWindow(tracker[t].ts))
             => tracker'[t].counted = Some(Len(recorded))]_vars

\* Three calls in different hour buckets, the last one 24 hours after the
\* first, and a count asked at that moment has returned 3.
C22_Witness ==
    /\ Len(recorded) = 3
    /\ BucketFor(recorded[1]) # BucketFor(recorded[2])
    /\ recorded[3] = recorded[1] + Window
    /\ tracker["t1"].pc = "idle"
    /\ tracker["t1"].ts = recorded[3]
    /\ tracker["t1"].counted = Some(3)

\* Every recorded call is more than 24 hours before ts.
AllOlderThanWindow(ts) == \A i \in DOMAIN recorded : ts > recorded[i] + Window

\* C23: a count asked more than 24 hours after every recorded call
\* returns 0, wherever the calls and the count fall in their hour buckets.
C23_CountAfterWindow ==
    [][\A t \in TrackerTasks :
          (CountReturns(t) /\ AllOlderThanWindow(tracker[t].ts))
             => tracker'[t].counted = Some(0)]_vars

\* The hour bucket in which the tasks of SpecTrackerConcurrent work.
SharedBucket == BucketFor(TrackerStart)

\* C24: with record_call and count_last_24h operations of several tasks
\* overlapping within one hour bucket, the bucket holds exactly one
\* increment for every record_call that has finished, no other bucket
\* exists, and no count returns more than the calls recorded.
C24_NoLostIncrement ==
    /\ BucketGet(buckets, SharedBucket) = Len(recorded)
    /\ DOMAIN buckets \subseteq {SharedBucket}
    /\ \A t \in TrackerTasks :
          tracker[t].counted # None => Get(tracker[t].counted) <= Len(recorded)

\* Two record_call operations overlapped, the one that took its timestamp
\* first finishing last, while the other task waited for the lock, and
\* the bucket counts both.
C24_Witness ==
    /\ Len(recorded) = 2
    /\ recorded[1] > recorded[2]
    /\ buckets[SharedBucket] = 2
    /\ \A t \in TrackerTasks : tracker[t].pc = "idle"

\* ----------------------------------------------------- refresh interval

\* The value is a whole number of minutes.
IsInteger(value) == value % PerMinute = 0

\* max(1, min(60, v)) for an integer v given in half minutes.
Clamped(value) == Max(1, Min(60, value \div PerMinute))

\* C25: the options flow and the real-time coordinator both turn every
\* integer input v into max(1, min(60, v)), every interval they produce is
\* within [1, 60], and from the same input they compute the same interval.
C25_IntervalClamped ==
    /\ \A c \in {flow, realtime} :
          c # None =>
            /\ Get(c).interval \in 1..60
            /\ IsInteger(Get(c).input) => Get(c).interval = Clamped(Get(c).input)
    /\ (flow # None /\ realtime # None /\ Get(flow).input = Get(realtime).input)
          => Get(flow).interval = Get(realtime).interval

\* The options flow was given 62 minutes and the coordinator was built
\* from a stored option of 62 minutes: both use 60.
C25_Witness ==
    /\ flow = Some(Computed(62 * PerMinute, 60))
    /\ realtime = Some(Computed(62 * PerMinute, 60))

\* ------------------------------------------------------------ setting keys

\* The key has no separator and no upper-case letter.
IsNormalized(key) ==
    \A i \in 1..Len(key) :
        key[i] \notin Separators /\ key[i] \notin {UpperCase[j] : j \in 1..26}

\* The rows of the table that stand for the key.
RowsFor(key) == {row \in SETTING_KEYS : row[1] = NormalizedKey(key)}

\* C26: _canonical_setting_key looks the key up without its separators
\* and in lower case; it returns the canonical key of the table row when
\* there is one and raises an API error when there is none; given a
\* canonical key, or its own result, it returns that same key.
C26_CanonicalKey ==
    canonical # None =>
      LET c == Get(canonical)
      IN  /\ IsNormalized(NormalizedKey(c.key))
          /\ \A row \in RowsFor(c.key) : c.result = Some(row[2]) /\ c.raised = None
          /\ RowsFor(c.key) = {} => c.result = None /\ c.raised = Some("ApiError")
          /\ c.key \in CanonicalKeys => c.result = Some(c.key)
          /\ c.again => c.result = Some(c.key)

\* min-Soc_OnGrid was canonicalised to MinSocOnGrid, and that result was
\* canonicalised again to itself.
C26_Witness ==
    /\ canonical # None
    /\ Get(canonical).again
    /\ Get(canonical).key = <<"M", "i", "n", "S", "o", "c", "O", "n", "G", "r", "i", "d">>
    /\ Get(canonical).result = Some(Get(canonical).key)

\* --------------------------------------------------------------- signature

\* The two-character escape sequences backslash-r and backslash-n.
EscapedCRLF == <<"\\", "r", "\\", "n">>

\* C27: the signature is the MD5 hex digest of path, backslash r backslash
\* n, api_key, backslash r backslash n, timestamp; the digested text holds
\* no CR and no LF character; two calls with the same path, key and
\* timestamp return the same signature.
C27_Signature ==
    /\ \A i \in DOMAIN signed :
          LET c == signed[i]
              text == c.signature.md5_hexdigest_of
          IN  /\ text = c.path \o EscapedCRLF \o c.api_key \o EscapedCRLF
                            \o c.timestamp
              /\ \A k \in DOMAIN text : text[k] \notin {"\r", "\n"}
    /\ \A i, j \in DOMAIN signed :
          (/\ signed[i].path = signed[j].path
           /\ signed[i].api_key = signed[j].api_key
           /\ signed[i].timestamp = signed[j].timestamp)
             => signed[i].signature = signed[j].signature

\* The scheduler path was signed twice with the same key at 5000 ms, and
\* both calls returned the same signature.
C27_Witness ==
    /\ Len(signed) = 2
    /\ signed[1] = signed[2]
    /\ signed[2].path = PathSchedulerGet
    /\ signed[2].timestamp = <<"5", "0", "0", "0">>
    /\ Len(signed[2].signature.md5_hexdigest_of)
          = Len(PathSchedulerGet) + 4 + Len(signed[2].api_key) + 4 + 4

\* ------------------------------------------------------- failing calls

\* A step of async_submit_group other than its successful return.
SubmitStepWithoutSuccess == submit' # submit /\ submit.pc # "replied"

\* C28: a submit whose set-scheduler request fails changes nothing: from
\* the request being built to the error being raised, dirty, staging and
\* the last-fetched state stay as they are and no refresh is requested,
\* and the caller gets one of the client's errors.  Dirty is cleared by a
\* submit only at its successful return.
C28_FailedSubmit ==
    [][/\ SubmitStepWithoutSuccess
            => UNCHANGED <<staging, dirty, last_scheduler, refresh_requested>>
       /\ (submit.pc = "failed" /\ submit' # submit)
            => /\ submit' = Idle
               /\ last_step'.op = "submit"
               /\ ~last_step'.ok
               /\ last_step'.error \in ClientErrors
       /\ (submit' # submit /\ dirty /\ ~dirty') => submit.pc = "replied"]_vars

\* The last step was a submit that raised, with an edited group staged:
\* dirty is still set, the edit is still staged, no refresh is pending.
C28_Witness ==
    /\ last_step.op = "submit"
    /\ ~last_step.ok
    /\ submit = Idle
    /\ dirty
    /\ staging # DefaultGroup
    /\ ~refresh_requested
    /\ last_scheduler # None

\* A step of a scheduler fetch that fails: the request whose call is going
\* to raise is issued, or _async_update_data raises UpdateFailed.
FailingFetchStep ==
    /\ fetch' # fetch
    /\ fetch.pc = "failed" \/ fetch'.pc = "failed"

\* C29: a scheduler fetch whose client call raises leaves staging, dirty,
\* the last-fetched state and the published view as they were, from the
\* request to the error, and ends as a failed refresh (UpdateFailed).
C29_FailedFetch ==
    [][/\ FailingFetchStep
            => UNCHANGED <<staging, dirty, last_scheduler, data>>
       /\ (fetch.pc = "failed" /\ fetch' # fetch)
            => /\ fetch' = Idle
               /\ last_step'.op = "fetch"
               /\ ~last_step'.ok
               /\ last_step'.error = "UpdateFailed"]_vars

\* A fetch has just failed after an earlier fetch succeeded and the group
\* was edited: the earlier state, the edit and dirty are all still there.
C29_Witness ==
    /\ last_step = Step("fetch", FALSE, "UpdateFailed", TRUE)
    /\ fetch = Idle
    /\ last_scheduler # None
    /\ dirty
    /\ staging # DefaultGroup
    /\ data = Some(StagingToSchedulerInfo(staging, last_scheduler))

\* ------------------------------------------------- edit during a fetch

\* A fetch that was entered with dirty = false and has its reply, while
\* dirty is true by now: update_group ran while the fetch was in flight.
EditedDuringFetch ==
    /\ fetch.pc = "replied"
    /\ ~fetch.entered_dirty
    /\ dirty

\* C30: when a fetch entered with dirty = false completes after an
\* update_group, the edited group stays staged, dirty stays true and the
\* published view shows the edited group.
C30_EditDuringFetchKept ==
    [][(EditedDuringFetch /\ fetch' # fetch)
          => /\ fetch' = Idle
             /\ staging' = staging
             /\ dirty'
             /\ data' = Some(SchedulerInfo(Get(fetch.result).enable, <<staging>>))]_vars

\* The reply of a fetch entered with dirty = false is in, update_group was
\* the last step, and the server's first group is not the edited group.
C30_Witness ==
    /\ EditedDuringFetch
    /\ last_step.op = "update_group"
    /\ last_step.ok
    /\ Get(fetch.result).groups # <<>>
    /\ Get(fetch.result).groups[1] # staging

\* ---------------------------------------------------------------- C31

\* The fetch about to return read the server before the server answered the
\* submit that has just returned normally.
ReadBeforeSubmit ==
    /\ fetch.pc = "replied"
    /\ SubmittedOk
    /\ submit.pc = "idle"
    /\ fetch.decided < submits

\* C31: after a submit has succeeded, a fetch that read the server before
\* that submit was applied, and that returns after dirty was cleared, does
\* not replace staging.
C31_NoStaleOverwrite ==
    [][(ReadBeforeSubmit /\ fetch' = Idle) => staging' = staging]_vars

\* ---------------------------------------------------------------- C32

\* The fetch about to return read the server after the server answered the
\* submit that has just returned normally, and nothing was edited since.
ReadAfterSubmit ==
    /\ fetch.pc = "replied"
    /\ SubmittedOk
    /\ submit.pc = "idle"
    /\ fetch.decided = submits

\* C32: when a submit has succeeded and a refresh that read the server after
\* it succeeds with no edit in between, dirty is false, the last fetched
\* state is the state the server had after the submit, staging is the first
\* group of that state, and it is the submitted group when the server still
\* holds what the submit stored.
C32_SubmitThenFetch ==
    [][(ReadAfterSubmit /\ fetch' = Idle) =>
          LET info == Get(fetch.result)
              sent == Get(last_submitted)
          IN  /\ dirty' = FALSE
              /\ last_scheduler' = Some(info)
              /\ info.groups # <<>> => staging' = info.groups[1]
              /\ info = SchedulerInfo(1, <<sent>>) => staging' = sent]_vars

\* An edited group was submitted and fetched back: the server holds exactly
\* the staged group, which is neither the default nor a group of another
\* client, and the last fetched state is the server's.
C32_Witness ==
    /\ FetchedOk
    /\ ~dirty
    /\ submit.pc = "idle"
    /\ submits > 0
    /\ staging \notin ServerGroups \cup {DefaultGroup}
    /\ server = SchedulerInfo(1, <<staging>>)
    /\ last_scheduler = Some(server)

\* ---------------------------------------------------------------- C33

\* The calls recorded at or after ts.
RecordedSince(ts) == {i \in DOMAIN recorded : recorded[i] >= ts}

\* What count_last_24h would return at time ts from the buckets bk.
CountAt(bk, ts) ==
    LET pruned == PruneLocked(bk, ts)
    IN  SumFrom(pruned, DOMAIN pruned, BucketFor(ts - Window))

\* C33: with calls recorded at non-decreasing times, a count at time t
\* counts every call recorded in the 24 hours before t and no call recorded
\* 25 hours or more before t, never returns more than the number of
\* record_call operations, and a second count at the same time with no
\* record in between returns the same value.
C33_CountBounds ==
    [][\A t \in TrackerTasks :
          CountReturns(t) =>
             LET ts == tracker[t].ts
                 counted == Get(tracker'[t].counted)
             IN  /\ counted >= Cardinality(RecordedSince(ts - Window))
                 /\ counted <= Cardinality(RecordedSince(ts - Window - UnitsPerHour + 1))
                 /\ counted <= Len(recorded)
                 /\ CountAt(buckets', ts) = counted]_vars

\* Two calls, the first 25 hours or more before the count and the second
\* within its last 24 hours, and the count has returned 1.
C33_Witness ==
    /\ Len(recorded) = 2
    /\ tracker["t1"].pc = "idle"
    /\ recorded[1] + Window + UnitsPerHour <= tracker["t1"].ts
    /\ recorded[2] >= tracker["t1"].ts - Window
    /\ recorded[2] <= tracker["t1"].ts
    /\ tracker["t1"].counted = Some(1)

\* ---------------------------------------------------------------- C34

\* A step of the set_schedule service.
ServiceStep ==
    \/ service' # service
    \/ last_step' # last_step /\ last_step'.op = "set_schedule"

\* The fetch about to return is the first coordinator step after the
\* service returned normally, the service was entered dirty and nothing was
\* edited since.
RefreshAfterDirtyService ==
    /\ fetch.pc = "replied"
    /\ last_step = Step("set_schedule", TRUE, "", FALSE)
    /\ Get(service.entered).dirty
    /\ Get(service.entered).edits = edits

\* C34: the set_schedule service sends the caller's group list to the
\* server and requests a refresh, and none of its steps changes staging or
\* dirty; when dirty was true before the call, the refresh that follows it
\* leaves staging as it was before the call, and dirty true.
C34_SetScheduleFrame ==
    [][/\ ServiceStep => UNCHANGED <<staging, dirty>>
       /\ (service.pc = "sent" /\ service'.pc = "replied")
             => server'.groups = Get(service.req).groups
       /\ (service.pc = "replied" /\ service'.pc = "idle")
             => refresh_requested'
       /\ (RefreshAfterDirtyService /\ fetch' = Idle)
             => /\ staging' = Get(service.entered).staging
                /\ dirty' = TRUE]_vars

\* An edit was staged, the service then replaced the server's schedule by
\* two groups, and the refresh it requested has returned: staging is still
\* the edit and dirty is true.
C34_Witness ==
    /\ FetchedOk
    /\ service.pc = "idle"
    /\ service.entered # None
    /\ Get(service.entered).dirty
    /\ Get(service.entered).edits = edits
    /\ last_scheduler = Some(SchedulerInfo(1, <<GroupB, GroupA>>))
    /\ staging \notin ServerGroups \cup {DefaultGroup}
    /\ dirty

\* ---------------------------------------------------------------- C35

\* The entry was set up without a scheduler coordinator.
NoSchedulerCoordinator ==
    runtime_data # None /\ Get(runtime_data).scheduler_coordinator = None

\* C35: when the scheduler coordinator is absent, no platform has created
\* an entity of a scheduler class, and no entity is constructed on the
\* missing coordinator.
C35_NoSchedulerEntities ==
    NoSchedulerCoordinator =>
        \A e \in entities : e.cls \notin SchedulerClasses /\ e.on # None

\* ---------------------------------------------------------------- C36

\* Task c suspends in _throttle in this step.
Suspends(c) == calls[c].pc # "sleeping" /\ calls'[c].pc = "sleeping"

\* C36: whatever the other callers do, a task suspends in the throttle
\* only when a request was sent on the client before, for a sleep of at
\* most min_interval; the next step of a suspended task sends its request,
\* so it suspends once; and every suspended task does send its request.
C36_ThrottleProceeds ==
    /\ [][\A c \in Callers :
             /\ Suspends(c) =>
                   /\ http_count > 0
                   /\ calls'[c].wake > now
                   /\ calls'[c].wake - now <= MinInterval
             /\ (calls[c].pc = "sleeping" /\ calls'[c] # calls[c])
                   => calls'[c].pc = "sent"]_vars
    /\ \A c \in Callers :
          (calls[c].pc = "sleeping") ~> (calls[c].pc = "sent")

\* One request was sent and both tasks are suspended in the throttle at the
\* same time, the sleep of both being over.
C36_Witness ==
    /\ http_count = 1
    /\ Sleeping = Callers
    /\ \A c \in Callers : now >= calls[c].wake

\* ---------------------------------------------------------------- C37

\* The async_list_inverters call of the flow returns in this step.
FetchReturns == cflow.pending # None /\ cflow'.pending = None

\* C37: the config flow creates an entry only with an API key for which a
\* device list fetch returned a list that is not empty and holds the
\* selected serial; an empty API key gets invalid_auth and no network
\* call; an authentication error of the fetch shows invalid_auth, a
\* connection or API error cannot_connect.
C37_ConfigFlow ==
    [][/\ \A e \in entries' \ entries :
             \E call \in list_calls :
                /\ call.api_key = e.data.api_key
                /\ call.outcome.kind = "ok"
                /\ call.outcome.devices # <<>>
                /\ e.data.device_sn \in DeviceMapKeys(call.outcome.devices)
       /\ (cflow'.input = Some(<<>>) /\ cflow' # cflow
              /\ cflow.result.step_id = "user")
             => /\ cflow'.result = FlowResult("form", "user", "invalid_auth")
                /\ cflow'.pending = None
                /\ list_calls' = list_calls
       /\ FetchReturns =>
             LET kind == Get(cflow'.outcome).kind
             IN  /\ kind = "AuthError"
                    => cflow'.result = FlowResult("form", "user", "invalid_auth")
                 /\ kind \in {"ConnectionError", "ApiError"}
                    => cflow'.result = FlowResult("form", "user", "cannot_connect")]_vars

\* An entry exists for the second device of a list of two, titled by its
\* station name, with the stripped key, the only key a call was made with.
C37_Witness ==
    /\ [unique_id |-> SerialB, title |-> <<"Shed">>,
        data |-> [api_key |-> <<"k">>, device_sn |-> SerialB]] \in entries
    /\ cflow.result.type = "create_entry"
    /\ \A call \in list_calls : call.api_key = <<"k">>

====
